---- MODULE Spec2Model ----
(***************************************************************************)
(* Ava: email-assistant web application.                                   *)
(*                                                                         *)
(* State machines, each with its own specification:                        *)
(*   SpecChat     backend  GET /api/chat        handleChatMessageStream    *)
(*   SpecUsers    backend  POST /api/users      createUser                 *)
(*   SpecAI       backend  AIService.getChatCompletion                     *)
(*   SpecClient   frontend MainLayout (streaming chat over EventSource)    *)
(*   SpecRag      frontend MainLayout (chat over POST /api/email_rag)      *)
(*   SpecRagFair the same, every fetch settles                            *)
(*   SpecIngest   frontend EmailIngestionForm and the email store          *)
(*   SpecEmails   frontend EmailListScreen, EmailDetailScreen, the store   *)
(*   SpecSettings frontend SettingsScreen and the stored settings          *)
(*   SpecHome     frontend HomeScreen and the homescreen result            *)
(*   SpecBoot     backend  process start   initializeApp                   *)
(* The endpoints behind the frontend screens follow the specification.     *)
(* A specification leaves the variables of the other machines unchanged.   *)
(***************************************************************************)
EXTENDS Integers, Sequences, FiniteSets, TLC

(***************************************************************************)
(* JavaScript values: a type tag and a printable value.                    *)
(***************************************************************************)
Undefined == [type |-> "undefined", val |-> ""]
Null      == [type |-> "null", val |-> ""]
Str(s)    == [type |-> "string", val |-> s]
Num(s)    == [type |-> "number", val |-> s]
Obj(s)    == [type |-> "object", val |-> s]

\* JavaScript truthiness: undefined, null, '' and 0 are falsy.
Truthy(v) ==
    CASE v.type = "undefined" -> FALSE
      [] v.type = "null"      -> FALSE
      [] v.type = "string"    -> v.val # ""
      [] v.type = "number"    -> v.val # "0"
      [] OTHER                -> TRUE

\* typeof v
TypeOf(v) == IF v.type = "null" THEN "object" ELSE v.type

\* a || b
OrElse(a, b) == IF Truthy(a) THEN a ELSE b

\* a ?? b
Coalesce(a, b) == IF a.type \in {"undefined", "null"} THEN b ELSE a

(***************************************************************************)
(* Bounds.                                                                 *)
(***************************************************************************)
MaxChunks == 3      \* chunks one upstream stream delivers
MaxRequests == 2    \* concurrent POST /api/users requests
MaxCalls == 2       \* successive calls of getChatCompletion
MaxSubmits == 2     \* accepted chat submits of one session
MaxEvents == 3      \* message events the EventSources of a session deliver
MaxMarkers == 2     \* email markers in one pasted text
MaxIngests == 2     \* submits of the ingestion form
MaxEmails == 3      \* ids the email store can give out
MaxDeletes == 1     \* confirmed deletes
MaxVisits == 2      \* page navigations of the user
MaxSaves == 1       \* saves of the settings
MaxLoads == 2       \* mounts of the settings page
MaxHomeLoads == 2   \* mounts of the home page

VARIABLES
    apiKey,          \* process.env.OPENAI_API_KEY
    \* ---- GET /api/chat (one request)
    hpc,             \* position of handleChatMessageStream
    message,         \* req.query.message
    stream,          \* what getChatCompletionStream resolved to
    res,             \* the response object
    closeListener,   \* req.on('close', ...) is registered
    clientConnected, \* the client's connection is up
    abortCalls,      \* calls of stream.controller.abort()
    createCalls,     \* calls of openai.chat.completions.create
    upstream,        \* contents of the chunks the upstream stream delivered
    upstreamEnd,     \* how the upstream iteration ended: "open", "done", "threw"
    disconnectAt,    \* hpc at the moment the client disconnected ("never" before)
    createOutcome,   \* the create call: "none", "pending", "threw", "resolved"
    thrown,          \* message of the error the iteration threw (Undefined before)
    \* ---- POST /api/users
    users,           \* the rows of the users table, in insertion order
    ureq,            \* the createUser requests: position, input, response
    \* ---- AIService.getChatCompletion
    aiPc,            \* "idle", "awaitCreate", "settled"
    aiMessages,      \* the messages array passed to the create call
    aiResults,       \* how the promise of each call settled: outcome and value
    aiCalls,         \* calls of getChatCompletion so far
    aiCreateCalls,   \* calls of openai.chat.completions.create made by them
    \* ---- MainLayout (streaming chat client)
    chatInput,       \* useState(''): the text of the input, a sequence of characters
    isSubmitting,    \* useState(false)
    chatHistory,     \* useState<Message[]>([])
    isChatOpen,      \* useState(false)
    eventSourceRef,  \* useRef(null): 0, or the index of an EventSource in sources
    sources,         \* the EventSource objects created so far
    now,             \* Date.now()
    \* the email store and its screens
    mailStore,       \* the stored email records, in insertion order
    usedIds,         \* the ids given to a record so far
    goneIds,         \* ids deleted with a 2xx answer and not ingested since
    ingestForm,      \* EmailIngestionForm: bulkEmailsText, isLoading, feedback
    ingestSubmits,   \* calls of handleSubmit so far
    ingestCall,      \* the fetch of handleSubmit
    page,            \* the page the router shows: "home", "list", "detail"
    mounts,          \* page mounts so far
    listScreen,      \* EmailListScreen: emails, loading, error
    listCall,        \* the fetch of fetchEmails of the mounted list page
    detailScreen,    \* EmailDetailScreen: emailId, email, loading, error, ...
    detailCall,      \* the fetch of fetchEmail of the mounted detail page
    deleteCalls,     \* the fetches of handleDelete so far
    \* the settings and their screen
    settingsStore,   \* the settings record the server holds
    lastSaved,       \* the form strings of the last save the server stored
    settingsScreen,  \* SettingsScreen: the three contexts, isLoading, ...
    settingsMounts,  \* mounts of the settings page so far
    loadCall,        \* the fetch of loadSettings of the mounted page
    saveCalls,       \* the fetches of handleSave in flight
    saves,           \* calls of handleSave so far
    \* the chat client over POST /api/email_rag
    ragCalls,        \* the fetches of handleChatSubmit in flight
    ragSent,         \* accepted submits so far
    \* the home screen
    homeScreen,      \* HomeScreen: data, loading, error
    homeMounts,      \* mounts of the home page so far
    homeCall,        \* the fetch of fetchData of the mounted page
    \* ---- the backend process from its start
    env,             \* process.env after dotenv.config()
    bootPc,          \* position of the start of the process
    bootLog,         \* the calls made and their outcomes, in order
    listens,         \* app.listen has been called
    exitCode         \* the code of process.exit, -1 while the process runs

chatVars == <<hpc, message, stream, res, closeListener, clientConnected,
              abortCalls, createCalls, upstream, upstreamEnd, disconnectAt,
              createOutcome, thrown>>

userVars == <<users, ureq>>

aiVars == <<aiPc, aiMessages, aiResults, aiCalls, aiCreateCalls>>

clientVars == <<chatInput, isSubmitting, chatHistory, isChatOpen,
                eventSourceRef, sources, now>>

mailVars == <<mailStore, usedIds, goneIds, ingestForm, ingestSubmits, ingestCall,
              page, mounts, listScreen, listCall, detailScreen, detailCall,
              deleteCalls>>

settingsVars == <<settingsStore, lastSaved, settingsScreen, settingsMounts,
                  loadCall, saveCalls, saves>>

ragVars == <<ragCalls, ragSent>>

homeVars == <<homeScreen, homeMounts, homeCall>>

pageVars == <<mailVars, settingsVars, ragVars, homeVars>>

bootVars == <<env, bootPc, bootLog, listens, exitCode>>

vars == <<apiKey, chatVars, userVars, aiVars, clientVars, pageVars, bootVars>>

\* what the actions of a machine leave alone
notChat == <<apiKey, userVars, aiVars, clientVars, pageVars, bootVars>>
notUsers == <<apiKey, chatVars, aiVars, clientVars, pageVars, bootVars>>
notAI == <<apiKey, chatVars, userVars, clientVars, pageVars, bootVars>>
notClient == <<apiKey, chatVars, userVars, aiVars, pageVars, bootVars>>
notPages == <<apiKey, chatVars, userVars, aiVars, clientVars, bootVars>>
notMail == <<notPages, settingsVars, ragVars, homeVars>>
notSettings == <<notPages, mailVars, ragVars, homeVars>>
notRag == <<apiKey, chatVars, userVars, aiVars, mailVars, settingsVars, homeVars,
            bootVars>>
notHome == <<notPages, mailVars, settingsVars, ragVars>>
notBoot == <<apiKey, chatVars, userVars, aiVars, clientVars, pageVars>>

ApiKeys == {Undefined, Str(""), Str("sk-key")}

(***************************************************************************)
(* The response object of a request (express / http.ServerResponse).       *)
(***************************************************************************)
NewResponse ==
    [statusCode |-> 200, headersSent |-> FALSE, writableEnded |-> FALSE,
     contentType |-> "", body |-> <<>>, endCalls |-> 0, lateWrites |-> 0]

\* res.status(code).json(obj): status, JSON body, end.
ResJson(r, code, obj) ==
    [r EXCEPT !.statusCode = code, !.headersSent = TRUE, !.writableEnded = TRUE,
              !.contentType = "application/json",
              !.body = Append(@, obj), !.endCalls = @ + 1]

\* res.writeHead(code, {'Content-Type': type})
ResWriteHead(r, code, type) ==
    [r EXCEPT !.statusCode = code, !.contentType = type, !.headersSent = TRUE]

\* res.setHeader('Content-Type', ...) ... res.flushHeaders()
ResFlushHeaders(r, type) ==
    [r EXCEPT !.contentType = type, !.headersSent = TRUE]

\* res.write(data): a write on an ended response adds nothing to the body.
ResWrite(r, data) ==
    IF r.writableEnded
    THEN [r EXCEPT !.lateWrites = @ + 1]
    ELSE [r EXCEPT !.body = Append(@, data), !.headersSent = TRUE]

\* res.end()
ResEnd(r) ==
    [r EXCEPT !.writableEnded = TRUE, !.headersSent = TRUE, !.endCalls = @ + 1]

\* `data: ${JSON.stringify({ [key]: value })}\n\n`
SseEvent(key, value) == [frame |-> "data", key |-> key, value |-> value]

\* the JSON body { [key]: value }
JsonBody(key, value) == [frame |-> "json", key |-> key, value |-> value]

(***************************************************************************)
(* GET /api/chat: handleChatMessageStream.                                 *)
(***************************************************************************)
Messages == {Undefined, Str(""), Str("hi"), Obj("['a','b']")}

\* chunk.choices[0]?.delta?.content of an upstream chunk
Contents == {Undefined, Str(""), Str("a"), Str("b")}

\* error.message of what the upstream iteration throws
ErrorMessages == {"", "boom"}

InvalidMessageTypeOnly(m) == TypeOf(m) # "string"

\* the message query parameter is rejected
InvalidMessage(m) == ~Truthy(m) \/ TypeOf(m) # "string"

NoStreamResponseUnended(r) ==
    ResWrite(ResWriteHead(r, 500, "text/event-stream"),
        SseEvent("error", "Failed to establish connection with AI service."))

\* the branch `if (!stream)`: the 500 answer with one SSE error event
NoStreamResponse(r) ==
    ResEnd(ResWrite(ResWriteHead(r, 500, "text/event-stream"),
        SseEvent("error", "Failed to establish connection with AI service.")))

\* the request arrives: validation, then getChatCompletionStream up to its
\* first suspension (the create call), or its return of null without a key
HandleChatMessageStream(m) ==
    /\ hpc = "idle"
    /\ message' = m
    /\ IF InvalidMessage(m)
       THEN /\ res' = ResJson(res, 400,
                        JsonBody("error", "Invalid or missing message query parameter"))
            /\ hpc' = "done"
            /\ UNCHANGED <<stream, createCalls, createOutcome>>
       ELSE IF ~Truthy(apiKey)
       THEN /\ stream' = "null"
            /\ res' = NoStreamResponse(res)
            /\ hpc' = "done"
            /\ UNCHANGED <<createCalls, createOutcome>>
       ELSE /\ createCalls' = createCalls + 1
            /\ createOutcome' = "pending"
            /\ stream' = "pending"
            /\ hpc' = "awaitCreate"
            /\ UNCHANGED res
    /\ UNCHANGED <<notChat, closeListener, clientConnected, abortCalls,
                   upstream, upstreamEnd, disconnectAt, thrown>>

CreateThrowsPropagates ==
    /\ hpc = "awaitCreate"
    /\ createOutcome' = "threw"
    /\ stream' = "rejected"
    /\ res' = ResJson(res, 500,
                 JsonBody("error", "Internal Server Error during streaming setup"))
    /\ hpc' = "done"
    /\ UNCHANGED <<notChat, message, closeListener, clientConnected, abortCalls,
                   createCalls, upstream, upstreamEnd, disconnectAt, thrown>>

\* the create call throws: getChatCompletionStream returns null
CreateThrows ==
    /\ hpc = "awaitCreate"
    /\ createOutcome' = "threw"
    /\ stream' = "null"
    /\ res' = NoStreamResponse(res)
    /\ hpc' = "done"
    /\ UNCHANGED <<notChat, message, closeListener, clientConnected, abortCalls,
                   createCalls, upstream, upstreamEnd, disconnectAt, thrown>>

\* the create call resolves: SSE headers, the close listener, the loop starts
CreateResolves ==
    /\ hpc = "awaitCreate"
    /\ createOutcome' = "resolved"
    /\ stream' = "stream"
    /\ res' = ResFlushHeaders(res, "text/event-stream")
    /\ closeListener' = TRUE
    /\ hpc' = "loop"
    /\ UNCHANGED <<notChat, message, clientConnected, abortCalls, createCalls,
                   upstream, upstreamEnd, disconnectAt, thrown>>

ForAwaitChunkUnfiltered(content) ==
    /\ hpc = "loop"
    /\ Len(upstream) < MaxChunks
    /\ upstream' = Append(upstream, content)
    /\ res' = ResWrite(res, SseEvent("chunk", OrElse(content, Str("")).val))
    /\ UNCHANGED <<notChat, hpc, message, stream, closeListener, clientConnected,
                   abortCalls, createCalls, upstreamEnd, disconnectAt, createOutcome, thrown>>

\* one iteration of `for await (const chunk of stream)`
ForAwaitChunk(content) ==
    /\ hpc = "loop"
    /\ Len(upstream) < MaxChunks
    /\ upstream' = Append(upstream, content)
    /\ LET c == OrElse(content, Str(""))
       IN  res' = IF Truthy(c) THEN ResWrite(res, SseEvent("chunk", c.val)) ELSE res
    /\ UNCHANGED <<notChat, hpc, message, stream, closeListener, clientConnected,
                   abortCalls, createCalls, upstreamEnd, disconnectAt, createOutcome, thrown>>

\* the iteration ends: the end marker, res.end()
ForAwaitDone ==
    /\ hpc = "loop"
    /\ upstreamEnd' = "done"
    /\ res' = ResEnd(ResWrite(res, SseEvent("end", "true")))
    /\ hpc' = "done"
    /\ UNCHANGED <<notChat, message, stream, closeListener, clientConnected,
                   abortCalls, createCalls, upstream, disconnectAt, createOutcome, thrown>>

CatchStreamingUnended(r, msg) ==
    IF ~r.headersSent
    THEN ResJson(r, 500, JsonBody("error", "Internal Server Error during streaming setup"))
    ELSE IF ~r.writableEnded
    THEN ResWrite(r, SseEvent("error",
             <<"Server error: ", IF msg # "" THEN msg ELSE "Unknown error">>))
    ELSE r

\* the catch block of handleChatMessageStream
CatchStreaming(r, msg) ==
    IF ~r.headersSent
    THEN ResJson(r, 500, JsonBody("error", "Internal Server Error during streaming setup"))
    ELSE IF ~r.writableEnded
    THEN ResEnd(ResWrite(r, SseEvent("error",
             <<"Server error: ", IF msg # "" THEN msg ELSE "Unknown error">>)))
    ELSE r

\* the iteration throws
ForAwaitThrows(msg) ==
    /\ hpc = "loop"
    /\ upstreamEnd' = "threw"
    /\ thrown' = Str(msg)
    /\ res' = CatchStreaming(res, msg)
    /\ hpc' = "done"
    /\ UNCHANGED <<notChat, message, stream, closeListener, clientConnected,
                   abortCalls, createCalls, upstream, disconnectAt, createOutcome>>

\* the listener of req 'close': abort the upstream stream, end the response
OnClose(listening) ==
    /\ abortCalls' = IF listening THEN abortCalls + 1 ELSE abortCalls
    /\ res' = IF listening THEN ResEnd(res) ELSE res

\* the client's connection closes; 'close' is emitted on the request, and
\* reaches the listener only when one is registered by then
ClientDisconnects ==
    /\ hpc # "idle"
    /\ clientConnected
    /\ clientConnected' = FALSE
    /\ disconnectAt' = hpc
    /\ OnClose(closeListener)
    /\ UNCHANGED <<notChat, hpc, message, stream, closeListener, createCalls,
                   upstream, upstreamEnd, createOutcome, thrown>>

InitChat ==
    /\ hpc = "idle"
    /\ message = Undefined
    /\ stream = "none"
    /\ res = NewResponse
    /\ closeListener = FALSE
    /\ clientConnected = TRUE
    /\ abortCalls = 0
    /\ createCalls = 0
    /\ upstream = <<>>
    /\ upstreamEnd = "open"
    /\ disconnectAt = "never"
    /\ createOutcome = "none"
    /\ thrown = Undefined

NextChat ==
    \/ \E m \in Messages : HandleChatMessageStream(m)
    \/ CreateThrows
    \/ CreateResolves
    \/ \E c \in Contents : ForAwaitChunk(c)
    \/ ForAwaitDone
    \/ \E e \in ErrorMessages : ForAwaitThrows(e)
    \/ ClientDisconnects

(***************************************************************************)
(* POST /api/users: createUser over the users table.                       *)
(***************************************************************************)
Requests == 1..MaxRequests

\* req.body.email and req.body.name
Emails == {Undefined, Null, Str(""), Num("0"), Num("7"), Obj("{}"),
           Str("a@x"), Str("b@x")}
Names == {Undefined, Str("Al")}

IdleRequest ==
    [pc |-> "idle", email |-> Undefined, name |-> Undefined, status |-> 0,
     body |-> <<>>, lookups |-> 0, saves |-> 0, storedAtStart |-> FALSE]

\* some row of the table has this email
Stored(table, email) == \E i \in 1..Len(table) : table[i].email = email

FindOneByNothing(table, email) == Null

\* userRepository.findOneBy({ email }): a row with that email, or null
FindOneBy(table, email) ==
    IF Stored(table, email)
    THEN Obj(CHOOSE i \in 1..Len(table) : table[i].email = email)
    ELSE Null

UniqueViolationNever(table, email) == FALSE

\* the unique constraint of the email column rejects the insert
UniqueViolation(table, email) == Stored(table, email)

\* userRepository.create({ email, name: name || null })
NewUser(table, email, name) ==
    [id |-> Len(table) + 1, email |-> email, name |-> OrElse(name, Null)]

EmailMissingUndefinedOnly(email) == email.type = "undefined"

\* `if (!email)`
EmailMissing(email) == ~Truthy(email)

\* `if (typeof email !== 'string')`
EmailNotString(email) == TypeOf(email) # "string"

Respond(q, code, msg) ==
    [q EXCEPT !.pc = "done", !.status = code, !.body = msg]

\* the request arrives: validation, then the lookup is issued
CreateUser(r, email, name) ==
    /\ ureq[r].pc = "idle"
    /\ LET q == [ureq[r] EXCEPT !.email = email, !.name = name,
                                !.storedAtStart = Stored(users, email)]
       IN  ureq' = [ureq EXCEPT ![r] =
              IF EmailMissing(email) THEN Respond(q, 400, "Email is required")
              ELSE IF EmailNotString(email) THEN Respond(q, 400, "Invalid email format")
              ELSE [q EXCEPT !.pc = "findOneBy", !.lookups = @ + 1]]
    /\ UNCHANGED <<notUsers, users>>

\* the lookup returns: 409, or the insert is issued
FindOneByReturns(r) ==
    /\ ureq[r].pc = "findOneBy"
    /\ LET existingUser == FindOneBy(users, ureq[r].email)
       IN  ureq' = [ureq EXCEPT ![r] =
              IF Truthy(existingUser)
              THEN Respond(@, 409, "User with this email already exists")
              ELSE [@ EXCEPT !.pc = "save", !.saves = @ + 1]]
    /\ UNCHANGED <<notUsers, users>>

\* the insert returns: the row is stored and 201 answered, or the table
\* rejects it and the catch block answers 500
SaveReturns(r) ==
    /\ ureq[r].pc = "save"
    /\ IF UniqueViolation(users, ureq[r].email)
       THEN /\ ureq' = [ureq EXCEPT ![r] = Respond(@, 500, "Internal Server Error")]
            /\ UNCHANGED users
       ELSE /\ users' = Append(users, NewUser(users, ureq[r].email, ureq[r].name))
            /\ ureq' = [ureq EXCEPT ![r] = Respond(@, 201, "newUser")]
    /\ UNCHANGED notUsers

InitUsers ==
    /\ users = <<>>
    /\ ureq = [r \in Requests |-> IdleRequest]

NextUsers ==
    \/ \E r \in Requests, e \in Emails, n \in Names : CreateUser(r, e, n)
    \/ \E r \in Requests : FindOneByReturns(r)
    \/ \E r \in Requests : SaveReturns(r)

(***************************************************************************)
(* AIService.getChatCompletion.                                            *)
(***************************************************************************)
UserMessages == {"", "hi"}
SystemPrompts == {Undefined, Str(""), Str("sys")}

\* what the create call resolves to: the shape of the completion object
Completions ==
    {[shape |-> "noChoices", content |-> Undefined],     \* choices is undefined
     [shape |-> "emptyChoices", content |-> Undefined],  \* choices is []
     [shape |-> "noMessage", content |-> Undefined],     \* choices[0].message is undefined
     [shape |-> "message", content |-> Undefined],       \* message has no content
     [shape |-> "message", content |-> Null],
     [shape |-> "message", content |-> Str("")],
     [shape |-> "message", content |-> Str("answer")]}

\* what the create call throws
Errors ==
    {[kind |-> "APIError", status |-> "401"],
     [kind |-> "APIError", status |-> "429"],
     [kind |-> "TypeError", status |-> ""]}

\* the messages array: the system prompt when truthy, then the user message
BuildMessages(userMessage, systemPrompt) ==
    (IF Truthy(systemPrompt)
     THEN <<[role |-> "system", content |-> systemPrompt.val]>> ELSE <<>>)
    \o <<[role |-> "user", content |-> userMessage]>>

\* completion.choices[0] throws a TypeError when choices is undefined
IndexingThrows(completion) == completion.shape = "noChoices"

\* completion.choices[0]?.message?.content
ResponseContent(completion) ==
    IF completion.shape = "message" THEN completion.content ELSE Undefined

ReturnContentUnchecked(completion) == ResponseContent(completion)

\* return responseContent ?? "AI did not return a valid response."
ReturnContent(completion) ==
    Coalesce(ResponseContent(completion), Str("AI did not return a valid response."))

\* `AI API Error: ${error.status} - ${error.message}`
ApiErrorText(error) ==
    CASE error.status = "401" -> "AI API Error: 401 - unauthorized"
      [] error.status = "429" -> "AI API Error: 429 - rate limited"
      [] OTHER -> "AI API Error: undefined - undefined"

\* the catch block of getChatCompletion
CatchCompletion(error) ==
    IF error.kind = "APIError"
    THEN [outcome |-> "resolved", value |-> Str(ApiErrorText(error))]
    ELSE [outcome |-> "resolved",
          value |-> Str("An error occurred while communicating with the AI.")]

\* the call, up to the await of the create call (or the return without a key)
GetChatCompletion(userMessage, systemPrompt) ==
    /\ aiPc \in {"idle", "settled"}
    /\ aiCalls < MaxCalls
    /\ aiCalls' = aiCalls + 1
    /\ IF ~Truthy(apiKey)
       THEN /\ aiPc' = "settled"
            /\ aiResults' = Append(aiResults, [outcome |-> "resolved", value |->
                   Str("AI Service is not configured. Please set the OPENAI_API_KEY.")])
            /\ aiMessages' = <<>>
            /\ UNCHANGED aiCreateCalls
       ELSE /\ aiPc' = "awaitCreate"
            /\ aiMessages' = BuildMessages(userMessage, systemPrompt)
            /\ aiCreateCalls' = aiCreateCalls + 1
            /\ UNCHANGED aiResults
    /\ UNCHANGED notAI

\* the create call resolves with a completion
CompletionResolves(completion) ==
    /\ aiPc = "awaitCreate"
    /\ aiPc' = "settled"
    /\ aiResults' = Append(aiResults,
            IF IndexingThrows(completion)
            THEN CatchCompletion([kind |-> "TypeError", status |-> ""])
            ELSE [outcome |-> "resolved", value |-> ReturnContent(completion)])
    /\ UNCHANGED <<notAI, aiMessages, aiCalls, aiCreateCalls>>

\* the create call throws
CompletionThrows(error) ==
    /\ aiPc = "awaitCreate"
    /\ aiPc' = "settled"
    /\ aiResults' = Append(aiResults, CatchCompletion(error))
    /\ UNCHANGED <<notAI, aiMessages, aiCalls, aiCreateCalls>>

InitAI ==
    /\ aiPc = "idle"
    /\ aiMessages = <<>>
    /\ aiResults = <<>>
    /\ aiCalls = 0
    /\ aiCreateCalls = 0

NextAI ==
    \/ \E m \in UserMessages, p \in SystemPrompts : GetChatCompletion(m, p)
    \/ \E c \in Completions : CompletionResolves(c)
    \/ \E e \in Errors : CompletionThrows(e)

(***************************************************************************)
(* MainLayout: the streaming chat client over an EventSource.              *)
(***************************************************************************)
\* what the user types
Inputs == {<<>>, <<" ">>, <<" ", "q", " ">>}

RECURSIVE TrimStart(_)
TrimStart(str) ==
    IF str # <<>> /\ Head(str) = " " THEN TrimStart(Tail(str)) ELSE str

RECURSIVE TrimEnd(_)
TrimEnd(str) ==
    IF str # <<>> /\ str[Len(str)] = " "
    THEN TrimEnd(SubSeq(str, 1, Len(str) - 1)) ELSE str

\* the variant of Trim that keeps the trailing whitespace
TrimLeadingOnly(str) == TrimStart(str)

\* String.prototype.trim
Trim(str) == TrimEnd(TrimStart(str))

\* event.data of a message event: text that is no JSON, the JSON null, or a
\* JSON object with some of the fields chunk, end and error
SseDatas ==
    {[json |-> "invalid", chunk |-> Undefined, end |-> FALSE, error |-> Undefined],
     [json |-> "null", chunk |-> Undefined, end |-> FALSE, error |-> Undefined],
     [json |-> "object", chunk |-> Str("a"), end |-> FALSE, error |-> Undefined],
     [json |-> "object", chunk |-> Str("b"), end |-> FALSE, error |-> Undefined],
     [json |-> "object", chunk |-> Str(""), end |-> FALSE, error |-> Undefined],
     [json |-> "object", chunk |-> Undefined, end |-> TRUE, error |-> Undefined],
     [json |-> "object", chunk |-> Str("a"), end |-> TRUE, error |-> Undefined],
     [json |-> "object", chunk |-> Undefined, end |-> FALSE, error |-> Str("boom")],
     [json |-> "object", chunk |-> Undefined, end |-> TRUE, error |-> Str("boom")]}

ConnectionFailedNote == "\n\nError: Connection failed."
ParseErrorNote == "\n\nError: Could not parse response."

\* the component's state as one record
Client ==
    [chatInput |-> chatInput, isSubmitting |-> isSubmitting,
     chatHistory |-> chatHistory, isChatOpen |-> isChatOpen,
     eventSourceRef |-> eventSourceRef, sources |-> sources]

SetClient(c) ==
    /\ chatInput' = c.chatInput
    /\ isSubmitting' = c.isSubmitting
    /\ chatHistory' = c.chatHistory
    /\ isChatOpen' = c.isChatOpen
    /\ eventSourceRef' = c.eventSourceRef
    /\ sources' = c.sources

\* new EventSource(url): connecting, its request not yet on the wire
NewEventSource(assistantMessageId, originalMessage) ==
    [readyState |-> "connecting", inflight |-> FALSE, requests |-> 0,
     delivered |-> 0, received |-> <<>>, ended |-> FALSE, fail |-> "none",
     assistantMessageId |-> assistantMessageId,
     originalMessage |-> originalMessage]

\* EventSource.close()
EsClose(ss, i) == [ss EXCEPT ![i].readyState = "closed", ![i].inflight = FALSE]

\* prev.map(msg => msg.id === id ? F(msg) : msg)
MapMessage(history, id, F(_)) ==
    [k \in 1..Len(history) |->
        IF history[k].id = id THEN F(history[k]) ELSE history[k]]

CloseChatKeepingSource(c) ==
    [c EXCEPT !.isChatOpen = FALSE, !.eventSourceRef = 0, !.isSubmitting = FALSE]

\* closeChat
CloseChat(c) ==
    [c EXCEPT !.isChatOpen = FALSE,
              !.sources = IF c.eventSourceRef # 0 THEN EsClose(@, c.eventSourceRef) ELSE @,
              !.eventSourceRef = 0,
              !.isSubmitting = FALSE]

\* the failure of source i is noted (history, for the claims)
Failed(c, i, how) == [c EXCEPT !.sources[i].fail = how]

\* the variant of OnChunk that shows the last chunk only
OnChunkReplacing(c, id, data) ==
    IF Truthy(data.chunk)
    THEN [c EXCEPT !.chatHistory =
            MapMessage(@, id, LAMBDA msg : [msg EXCEPT !.text = <<data.chunk.val>>])]
    ELSE c

\* the branch `if (data.chunk)` of onmessage
OnChunk(c, id, data) ==
    IF Truthy(data.chunk)
    THEN [c EXCEPT !.chatHistory =
            MapMessage(@, id, LAMBDA msg : [msg EXCEPT !.text = @ \o <<data.chunk.val>>])]
    ELSE c

\* the branch `if (data.end)` of onmessage
OnEnd(c, id, data) ==
    IF data.end
    THEN [c EXCEPT
            !.chatHistory = MapMessage(@, id, LAMBDA msg : [msg EXCEPT !.isStreaming = FALSE]),
            !.sources = IF c.eventSourceRef # 0 THEN EsClose(@, c.eventSourceRef) ELSE @,
            !.eventSourceRef = 0,
            !.isSubmitting = FALSE]
    ELSE c

\* the branch `if (data.error)` of onmessage
OnErrorEvent(c, i, id, data) ==
    IF Truthy(data.error)
    THEN CloseChat(Failed([c EXCEPT !.chatHistory =
            MapMessage(@, id, LAMBDA msg :
                [msg EXCEPT !.text = <<"Error: ", data.error.val>>,
                            !.isStreaming = FALSE])], i, "event"))
    ELSE c

\* the catch block of onmessage
OnParseError(c, i, id) ==
    CloseChat(Failed([c EXCEPT !.chatHistory =
        MapMessage(@, id, LAMBDA msg :
            [msg EXCEPT !.text = @ \o <<ParseErrorNote>>, !.isStreaming = FALSE])],
        i, "parse"))

\* eventSourceRef.current.onmessage of source i
OnMessage(c, i, data) ==
    LET id == c.sources[i].assistantMessageId
    IN  IF data.json # "object"
        THEN OnParseError(c, i, id)
        ELSE OnErrorEvent(OnEnd(OnChunk(c, id, data), id, data), i, id, data)

OnErrorTextReplaced(text) == <<ConnectionFailedNote>>

\* `${msg.text}\n\nError: Connection failed.`
OnErrorText(text) == text \o <<ConnectionFailedNote>>

\* eventSourceRef.current.onerror of source i
OnError(c, i) ==
    LET id == c.sources[i].assistantMessageId
        c1 == Failed([c EXCEPT !.chatHistory =
                MapMessage(@, id, LAMBDA msg :
                    [msg EXCEPT !.text = OnErrorText(@), !.isStreaming = FALSE])],
                i, "connection")
    IN  [CloseChat(c1) EXCEPT !.chatInput = c.sources[i].originalMessage]

\* the user types into the input (disabled while submitting)
SetChatInput(text) ==
    /\ ~isSubmitting
    /\ chatInput # text
    /\ chatInput' = text
    /\ UNCHANGED <<notClient, isSubmitting, chatHistory, isChatOpen,
                   eventSourceRef, sources, now>>

\* handleChatSubmit: rejected, or the two messages and a new EventSource
HandleChatSubmit ==
    LET messageText == Trim(chatInput)
        userMessageId == [kind |-> "user", at |-> now]
        assistantMessageId == [kind |-> "assistant", at |-> now]
    IN  IF messageText = <<>> \/ isSubmitting
        THEN UNCHANGED vars
        ELSE /\ Len(sources) < MaxSubmits
             /\ isSubmitting' = TRUE
             /\ isChatOpen' = TRUE
             /\ chatInput' = <<>>
             /\ chatHistory' = chatHistory \o
                    <<[id |-> userMessageId, sender |-> "user",
                       text |-> messageText, isStreaming |-> FALSE],
                      [id |-> assistantMessageId, sender |-> "assistant",
                       text |-> <<>>, isStreaming |-> TRUE]>>
             /\ sources' = Append(
                    IF eventSourceRef # 0 THEN EsClose(sources, eventSourceRef) ELSE sources,
                    NewEventSource(assistantMessageId, chatInput))
             /\ eventSourceRef' = Len(sources) + 1
             /\ now' = now + 1
             /\ UNCHANGED notClient

\* the user minimizes the overlay: onClose={closeChat}
UserClosesChat ==
    /\ isChatOpen
    /\ SetClient(CloseChat(Client))
    /\ UNCHANGED <<notClient, now>>

\* the browser sends the request of a connecting source
EsConnect(i) ==
    /\ sources[i].readyState = "connecting"
    /\ ~sources[i].inflight
    /\ sources' = [sources EXCEPT ![i].inflight = TRUE, ![i].requests = @ + 1]
    /\ UNCHANGED <<notClient, chatInput, isSubmitting, chatHistory, isChatOpen,
                   eventSourceRef, now>>

\* the response headers arrive: the source is open
EsOpen(i) ==
    /\ sources[i].readyState = "connecting"
    /\ sources[i].inflight
    /\ sources' = [sources EXCEPT ![i].readyState = "open"]
    /\ UNCHANGED <<notClient, chatInput, isSubmitting, chatHistory, isChatOpen,
                   eventSourceRef, now>>

RECURSIVE Delivered(_)
\* message events dispatched so far (bounds the session)
Delivered(ss) ==
    IF ss = <<>> THEN 0 ELSE Head(ss).delivered + Delivered(Tail(ss))

\* the message event is noted on source i (history, for the claims): the
\* chunk strings it received so far, and whether the end event arrived
Receive(c, i, data) ==
    [c EXCEPT !.sources[i].delivered = @ + 1,
              !.sources[i].received =
                  IF data.json = "object" /\ data.chunk.type = "string"
                  THEN Append(@, data.chunk.val) ELSE @,
              !.sources[i].ended = @ \/ (data.json = "object" /\ data.end)]

\* a message event is dispatched on an open source
EsMessage(i, data) ==
    /\ sources[i].readyState = "open"
    /\ Delivered(sources) < MaxEvents
    /\ SetClient(OnMessage(Receive(Client, i, data), i, data))
    /\ UNCHANGED <<notClient, now>>

\* the connection fails: the browser either gives up (closed) or schedules a
\* reconnection (connecting, nothing in flight), then dispatches the error event
EsError(i, fatal) ==
    /\ \/ sources[i].readyState = "open"
       \/ sources[i].readyState = "connecting" /\ sources[i].inflight
    /\ SetClient(OnError(
            [Client EXCEPT !.sources[i].readyState = IF fatal THEN "closed" ELSE "connecting",
                           !.sources[i].inflight = FALSE], i))
    /\ UNCHANGED <<notClient, now>>

InitClient ==
    /\ chatInput = <<>>
    /\ isSubmitting = FALSE
    /\ chatHistory = <<>>
    /\ isChatOpen = FALSE
    /\ eventSourceRef = 0
    /\ sources = <<>>
    /\ now = 1

NextClient ==
    \/ \E text \in Inputs : SetChatInput(text)
    \/ HandleChatSubmit
    \/ UserClosesChat
    \/ \E i \in 1..Len(sources) : EsConnect(i)
    \/ \E i \in 1..Len(sources) : EsOpen(i)
    \/ \E i \in 1..Len(sources), d \in SseDatas : EsMessage(i, d)
    \/ \E i \in 1..Len(sources), fatal \in BOOLEAN : EsError(i, fatal)

(***************************************************************************)
(* EmailIngestionForm, EmailListScreen and EmailDetailScreen, over the     *)
(* email store behind POST /api/ingest_bulk_emails, GET /api/emails,       *)
(* GET /api/email/:id and DELETE /api/email/:id.                           *)
(***************************************************************************)

\* A pasted text is a sequence of tokens: " " is whitespace, "Email" is one
\* email beginning with its marker line, "junk" is text without a marker.
MarkerText(n) == [i \in 1..n |-> "Email"]

IngestTexts ==
    {<<>>, <<" ">>, <<"junk">>, <<" ", "Email">>}
        \cup {MarkerText(n) : n \in 1..MaxMarkers}

EmailIds == 1..MaxEmails

\* received_date values, as days
Dates == {1, 2}

\* String(n) of a small count
NumStr(n) ==
    IF n = 0 THEN "0"
    ELSE <<"1", "2", "3", "4", "5", "6", "7", "8", "9">>[n]

\* `HTTP error! status: ${response.status}`
HttpErrorText(status) ==
    CASE status = 400 -> "HTTP error! status: 400"
      [] status = 404 -> "HTTP error! status: 404"
      [] OTHER        -> "HTTP error! status: 500"

\* the part of a fetch Response the screens read
HttpResponse(status, result) ==
    [ok |-> status \in 200..299, status |-> status, result |-> result]

NoResponse == HttpResponse(0, [message |-> Undefined, count |-> Undefined,
                               detail |-> Undefined])

IngestResult(msg, count, detail) ==
    [message |-> msg, count |-> count, detail |-> detail]

\* ---- the email store (server side) ----

StoreIds(store) == {store[i].id : i \in 1..Len(store)}

\* the number of email markers the splitter recognizes in a text
Markers(text) == Cardinality({i \in 1..Len(text) : text[i] = "Email"})

\* every part of the text belongs to an email that begins with a marker
WellFormed(text) ==
    /\ Markers(text) >= 1
    /\ \A i \in 1..Len(text) : text[i] \in {"Email", " "}

\* one record per marker, each under an id that is not taken
RECURSIVE NewRecords(_, _, _)
NewRecords(n, taken, date) ==
    IF n = 0
    THEN <<>>
    ELSE LET free == EmailIds \ taken
             id == CHOOSE i \in free : \A j \in free : i <= j
         IN  <<[id |-> id, received_date |-> date]>>
                 \o NewRecords(n - 1, taken \cup {id}, date)

RemoveEmailKeeping(store, id) == store

\* delete by id
RemoveEmail(store, id) == SelectSeq(store, LAMBDA e : e.id # id)

\* ---- EmailIngestionForm ----

NoFeedback == [type |-> "none", message |-> <<>>]

Feedback(type, msg) == [type |-> type, message |-> msg]

IngestFormInit ==
    [bulkEmailsText |-> <<>>, isLoading |-> FALSE, feedback |-> NoFeedback]

IdleIngest == [state |-> "none", text |-> <<>>, response |-> NoResponse]

TextIsBlankUntrimmed(text) == text = <<>>

\* !bulkEmailsText.trim()
TextIsBlank(text) == Trim(text) = <<>>

CountShownWrongField(result) == ""

\* count = result.count || 0;  ${count > 0 ? count : ''}
CountShown(result) ==
    LET count == OrElse(result.count, Num("0"))
    IN  IF count.type = "number" /\ count.val # "0" THEN count.val ELSE ""

\* the success message of the form
SuccessFeedback(result) ==
    Feedback("success",
        <<OrElse(result.message, Str("Successfully ingested emails.")).val,
          " Weaviate is now processing ", CountShown(result), " email(s).">>)

\* result.detail || `HTTP error! status: ${response.status}`
ErrorDetail(response) ==
    OrElse(response.result.detail, Str(HttpErrorText(response.status))).val

\* onChange of the textarea, which is disabled while loading
SetBulkEmailsText(text) ==
    /\ ~ingestForm.isLoading
    /\ text # ingestForm.bulkEmailsText
    /\ ingestSubmits < MaxIngests
    /\ ingestForm' = [ingestForm EXCEPT !.bulkEmailsText = text]
    /\ UNCHANGED <<notMail, mailStore, usedIds, goneIds, ingestSubmits, ingestCall,
                   page, mounts, listScreen, listCall, detailScreen, detailCall,
                   deleteCalls>>

\* handleSubmit up to its first await; the submit button is disabled while
\* loading
HandleSubmit ==
    /\ ~ingestForm.isLoading
    /\ ingestSubmits < MaxIngests
    /\ ingestSubmits' = ingestSubmits + 1
    /\ IF TextIsBlank(ingestForm.bulkEmailsText)
       THEN /\ ingestForm' = [ingestForm EXCEPT
                   !.feedback = Feedback("error", <<"Email text cannot be empty.">>)]
            /\ UNCHANGED ingestCall
       ELSE /\ ingestForm' = [ingestForm EXCEPT !.feedback = NoFeedback,
                                                !.isLoading = TRUE]
            /\ ingestCall' = [state |-> "sent", text |-> ingestForm.bulkEmailsText,
                              response |-> NoResponse]
    /\ UNCHANGED <<notMail, mailStore, usedIds, goneIds, page, mounts, listScreen,
                   listCall, detailScreen, detailCall, deleteCalls>>

\* POST /api/ingest_bulk_emails on the server: split the text at its markers
\* and store one record per email
ServeIngest(fail, reuse, date, msg) ==
    /\ ingestCall.state = "sent"
    /\ LET text == ingestCall.text
           taken == IF reuse THEN StoreIds(mailStore) ELSE usedIds
           recs == NewRecords(Markers(text), taken, date)
       IN  /\ Cardinality(EmailIds \ taken) >= Markers(text)
           /\ IF fail
               THEN /\ ingestCall' = [ingestCall EXCEPT !.state = "answered",
                          !.response = HttpResponse(500,
                              IngestResult(Undefined, Undefined, Undefined))]
                    /\ UNCHANGED <<mailStore, usedIds, goneIds>>
               ELSE IF ~WellFormed(text)
               THEN /\ ingestCall' = [ingestCall EXCEPT !.state = "answered",
                          !.response = HttpResponse(400,
                              IngestResult(Undefined, Undefined, Str("No emails found in text.")))]
                    /\ UNCHANGED <<mailStore, usedIds, goneIds>>
               ELSE /\ mailStore' = mailStore \o recs
                    /\ usedIds' = usedIds \cup StoreIds(recs)
                    /\ goneIds' = goneIds \ StoreIds(recs)
                    /\ ingestCall' = [ingestCall EXCEPT !.state = "answered",
                          !.response = HttpResponse(200,
                              IngestResult(msg, Num(NumStr(Len(recs))), Undefined))]
    /\ UNCHANGED <<notMail, ingestForm, ingestSubmits, page, mounts, listScreen,
                   listCall, detailScreen, detailCall, deleteCalls>>

\* POST /api/ingest_bulk_emails on the server, for a well-formed text with n
\* markers sent by another client
IngestElsewhere(n, reuse, date) ==
    /\ LET taken == IF reuse THEN StoreIds(mailStore) ELSE usedIds
           recs == NewRecords(n, taken, date)
       IN  /\ Cardinality(EmailIds \ taken) >= n
           /\ mailStore' = mailStore \o recs
           /\ usedIds' = usedIds \cup StoreIds(recs)
           /\ goneIds' = goneIds \ StoreIds(recs)
    /\ UNCHANGED <<notMail, ingestForm, ingestSubmits, ingestCall, page, mounts,
                   listScreen, listCall, detailScreen, detailCall, deleteCalls>>

\* handleSubmit after the response arrived
IngestSettles ==
    /\ ingestCall.state = "answered"
    /\ ingestCall' = [ingestCall EXCEPT !.state = "done"]
    /\ LET response == ingestCall.response
       IN  ingestForm' =
               IF response.ok
               THEN [bulkEmailsText |-> <<>>, isLoading |-> FALSE,
                     feedback |-> SuccessFeedback(response.result)]
               ELSE [ingestForm EXCEPT !.isLoading = FALSE,
                        !.feedback = Feedback("error",
                            <<"Failed to ingest emails: ", ErrorDetail(response)>>)]
    /\ UNCHANGED <<notMail, mailStore, usedIds, goneIds, ingestSubmits, page, mounts,
                   listScreen, listCall, detailScreen, detailCall, deleteCalls>>

\* the fetch of handleSubmit rejects: the request did not reach the server
IngestFetchFails ==
    /\ ingestCall.state = "sent"
    /\ ingestCall' = [ingestCall EXCEPT !.state = "failed"]
    /\ ingestForm' = [ingestForm EXCEPT !.isLoading = FALSE,
                         !.feedback = Feedback("error",
                             <<"Failed to ingest emails: ", "Failed to fetch">>)]
    /\ UNCHANGED <<notMail, mailStore, usedIds, goneIds, ingestSubmits, page, mounts,
                   listScreen, listCall, detailScreen, detailCall, deleteCalls>>

\* ---- EmailListScreen ----

ListScreenInit == [emails |-> <<>>, loading |-> TRUE, error |-> Null]

IdleList == [state |-> "none", ok |-> FALSE, status |-> 0, emails |-> <<>>,
             gone |-> {}]

\* insert behind every email that is not older (Array.prototype.sort is stable)
RECURSIVE InsertByDate(_, _)
InsertByDate(sorted, e) ==
    IF sorted = <<>>
    THEN <<e>>
    ELSE IF Head(sorted).received_date >= e.received_date
    THEN <<Head(sorted)>> \o InsertByDate(Tail(sorted), e)
    ELSE <<e>> \o sorted

\* result.emails.sort((a, b) => date(b) - date(a))
RECURSIVE SortNewestFirst(_)
SortNewestFirst(list) ==
    IF list = <<>>
    THEN <<>>
    ELSE InsertByDate(SortNewestFirst(SubSeq(list, 1, Len(list) - 1)), list[Len(list)])

\* ---- EmailDetailScreen ----

DetailScreenInit(id, mount) ==
    [emailId |-> id, mount |-> mount, email |-> Null, loading |-> TRUE,
     error |-> Null, isDeleting |-> FALSE, deleteError |-> Null]

IdleDetail == [state |-> "none", id |-> 0, status |-> 0]

\* the page navigate(-1) leads to: the list behind a detail page, the home
\* page behind the list
Back(p) == IF p = "detail" THEN "list" ELSE "home"

\* the router shows the home page or the list page; a list page that mounts
\* runs fetchEmails up to its await
Arrive(to) ==
    /\ page' = to
    /\ mounts' = mounts + 1
    /\ listScreen' = ListScreenInit
    /\ listCall' = IF to = "list" THEN [IdleList EXCEPT !.state = "sent"] ELSE IdleList
    /\ detailScreen' = DetailScreenInit(0, 0)
    /\ detailCall' = IdleDetail

\* <Link to="/emails"> on the home page
OpenList ==
    /\ page = "home"
    /\ mounts < MaxVisits
    /\ Arrive("list")
    /\ UNCHANGED <<notMail, mailStore, usedIds, goneIds, ingestForm, ingestSubmits,
                   ingestCall, deleteCalls>>

\* GET /api/emails on the server
ServeList(fail) ==
    /\ listCall.state = "sent"
    /\ listCall' = IF fail
                   THEN [listCall EXCEPT !.state = "answered", !.status = 500]
                   ELSE [listCall EXCEPT !.state = "answered", !.ok = TRUE,
                            !.status = 200, !.emails = mailStore, !.gone = goneIds]
    /\ UNCHANGED <<notMail, mailStore, usedIds, goneIds, ingestForm, ingestSubmits,
                   ingestCall, page, mounts, listScreen, detailScreen, detailCall,
                   deleteCalls>>

\* fetchEmails after the response arrived
ListSettles ==
    /\ listCall.state = "answered"
    /\ listCall' = [listCall EXCEPT !.state = "done"]
    /\ listScreen' =
           IF listCall.ok
           THEN [emails |-> SortNewestFirst(listCall.emails), loading |-> FALSE,
                 error |-> Null]
           ELSE [listScreen EXCEPT !.loading = FALSE,
                    !.error = Str("Failed to fetch emails: HTTP error! status: 500")]
    /\ UNCHANGED <<notMail, mailStore, usedIds, goneIds, ingestForm, ingestSubmits,
                   ingestCall, page, mounts, detailScreen, detailCall, deleteCalls>>

\* <Link to={`/email/${email.id}`}> of a listed email; the detail page that
\* mounts runs fetchEmail up to its await
OpenDetail(id) ==
    /\ page = "list"
    /\ mounts < MaxVisits
    /\ \E i \in 1..Len(listScreen.emails) : listScreen.emails[i].id = id
    /\ page' = "detail"
    /\ mounts' = mounts + 1
    /\ listScreen' = ListScreenInit
    /\ listCall' = IdleList
    /\ detailScreen' = DetailScreenInit(id, mounts + 1)
    /\ detailCall' = [state |-> "sent", id |-> id, status |-> 0]
    /\ UNCHANGED <<notMail, mailStore, usedIds, goneIds, ingestForm, ingestSubmits,
                   ingestCall, deleteCalls>>

\* GET /api/email/:id on the server
ServeDetail(fail) ==
    /\ detailCall.state = "sent"
    /\ detailCall' = [detailCall EXCEPT !.state = "answered",
           !.status = IF fail THEN 500
                      ELSE IF detailCall.id \in StoreIds(mailStore) THEN 200
                      ELSE 404]
    /\ UNCHANGED <<notMail, mailStore, usedIds, goneIds, ingestForm, ingestSubmits,
                   ingestCall, page, mounts, listScreen, listCall, detailScreen,
                   deleteCalls>>

\* fetchEmail after the response arrived
DetailSettles ==
    /\ detailCall.state = "answered"
    /\ detailCall' = [detailCall EXCEPT !.state = "done"]
    /\ detailScreen' =
           IF detailCall.status = 200
           THEN [detailScreen EXCEPT !.email = Obj("email"), !.loading = FALSE]
           ELSE IF detailCall.status = 404
           THEN [detailScreen EXCEPT !.loading = FALSE,
                    !.error = Str("Failed to fetch email: Email not found.")]
           ELSE [detailScreen EXCEPT !.loading = FALSE,
                    !.error = Str("Failed to fetch email: HTTP error! status: 500")]
    /\ UNCHANGED <<notMail, mailStore, usedIds, goneIds, ingestForm, ingestSubmits,
                   ingestCall, page, mounts, listScreen, listCall, deleteCalls>>

\* the back button of the detail page, the browser's back button on the list
GoBack ==
    /\ page # "home"
    /\ mounts < MaxVisits
    /\ Arrive(Back(page))
    /\ UNCHANGED <<notMail, mailStore, usedIds, goneIds, ingestForm, ingestSubmits,
                   ingestCall, deleteCalls>>

\* handleDelete up to its await, the user having confirmed; the delete button
\* is rendered once the email is loaded
HandleDelete ==
    /\ page = "detail"
    /\ ~detailScreen.loading
    /\ ~Truthy(detailScreen.error)
    /\ Truthy(detailScreen.email)
    /\ ~detailScreen.isDeleting
    /\ Len(deleteCalls) < MaxDeletes
    /\ detailScreen' = [detailScreen EXCEPT !.isDeleting = TRUE, !.deleteError = Null]
    /\ deleteCalls' = Append(deleteCalls,
           [state |-> "sent", id |-> detailScreen.emailId, mount |-> detailScreen.mount,
            response |-> NoResponse])
    /\ UNCHANGED <<notMail, mailStore, usedIds, goneIds, ingestForm, ingestSubmits,
                   ingestCall, page, mounts, listScreen, listCall, detailCall>>

\* DELETE /api/email/:id on the server
ServeDelete(i, fail) ==
    /\ deleteCalls[i].state = "sent"
    /\ LET id == deleteCalls[i].id
       IN  IF fail
           THEN /\ deleteCalls' = [deleteCalls EXCEPT ![i].state = "answered",
                      ![i].response = HttpResponse(500,
                          IngestResult(Undefined, Undefined, Undefined))]
                /\ UNCHANGED <<mailStore, goneIds>>
           ELSE IF id \notin StoreIds(mailStore)
           THEN /\ deleteCalls' = [deleteCalls EXCEPT ![i].state = "answered",
                      ![i].response = HttpResponse(404,
                          IngestResult(Undefined, Undefined, Str("Email not found.")))]
                /\ UNCHANGED <<mailStore, goneIds>>
           ELSE /\ mailStore' = RemoveEmail(mailStore, id)
                /\ goneIds' = goneIds \cup {id}
                /\ deleteCalls' = [deleteCalls EXCEPT ![i].state = "answered",
                      ![i].response = HttpResponse(200,
                          IngestResult(Str("Email deleted."), Undefined, Undefined))]
    /\ UNCHANGED <<notMail, usedIds, ingestForm, ingestSubmits, ingestCall, page,
                   mounts, listScreen, listCall, detailScreen, detailCall>>

\* handleDelete after the response arrived: navigate(-1) on success, the
\* error text otherwise; the state setters reach only the page that is still
\* mounted
DeleteSettles(i) ==
    /\ deleteCalls[i].state = "answered"
    /\ deleteCalls' = [deleteCalls EXCEPT ![i].state = "done"]
    /\ LET call == deleteCalls[i]
           mounted == page = "detail" /\ detailScreen.mount = call.mount
       IN  IF call.response.ok
           THEN IF page = "home"
                THEN UNCHANGED <<page, mounts, listScreen, listCall, detailScreen,
                                 detailCall>>
                ELSE Arrive(Back(page))
           ELSE /\ detailScreen' =
                       IF mounted
                       THEN [detailScreen EXCEPT !.isDeleting = FALSE,
                                !.deleteError = Str(ErrorDetail(call.response))]
                       ELSE detailScreen
                /\ UNCHANGED <<page, mounts, listScreen, listCall, detailCall>>
    /\ UNCHANGED <<notMail, mailStore, usedIds, goneIds, ingestForm, ingestSubmits,
                   ingestCall>>

InitMail ==
    /\ mailStore = <<>>
    /\ usedIds = {}
    /\ goneIds = {}
    /\ ingestForm = IngestFormInit
    /\ ingestSubmits = 0
    /\ ingestCall = IdleIngest
    /\ page = "home"
    /\ mounts = 0
    /\ listScreen = ListScreenInit
    /\ listCall = IdleList
    /\ detailScreen = DetailScreenInit(0, 0)
    /\ detailCall = IdleDetail
    /\ deleteCalls = <<>>

\* the ingestion form and the server behind it
NextIngest ==
    \/ \E text \in IngestTexts : SetBulkEmailsText(text)
    \/ HandleSubmit
    \/ \E fail \in BOOLEAN, reuse \in BOOLEAN, date \in Dates,
          msg \in {Undefined, Str("Emails ingested.")} :
              ServeIngest(fail, reuse, date, msg)
    \/ IngestSettles
    \/ IngestFetchFails

\* the list and detail pages and the server behind them, while emails are
\* ingested from elsewhere
NextEmails ==
    \/ \E n \in 1..MaxMarkers, reuse \in BOOLEAN, date \in Dates :
           IngestElsewhere(n, reuse, date)
    \/ OpenList
    \/ \E fail \in BOOLEAN : ServeList(fail)
    \/ ListSettles
    \/ \E id \in EmailIds : OpenDetail(id)
    \/ \E fail \in BOOLEAN : ServeDetail(fail)
    \/ DetailSettles
    \/ GoBack
    \/ HandleDelete
    \/ \E i \in 1..Len(deleteCalls), fail \in BOOLEAN : ServeDelete(i, fail)
    \/ \E i \in 1..Len(deleteCalls) : DeleteSettles(i)

(***************************************************************************)
(* SettingsScreen over GET and POST /api/settings.                         *)
(* handleLearn changes urgentContext as an edit of the user does, and is   *)
(* covered by SetContext.                                                  *)
(***************************************************************************)

ContextTexts == {"", "a"}

ContextFields == {"urgentContext", "delegateContext", "loopContext"}

\* the strings another tab saves
OtherForms == {<<"", "a", "">>}

\* the three context strings of the form
FormStrings(screen) ==
    <<screen.urgentContext, screen.delegateContext, screen.loopContext>>

SettingsScreenInit ==
    [urgentContext |-> "", delegateContext |-> "", loopContext |-> "",
     isLoading |-> FALSE, isInitiallyLoading |-> TRUE, feedback |-> NoFeedback]

\* the settings record of the server before any save
DefaultSettings ==
    [urgent_context |-> Str(""), delegate_context |-> Str(""), loop_context |-> Str("")]

NoSave == [any |-> FALSE, form |-> <<"", "", "">>]

IdleLoad == [state |-> "none", ok |-> FALSE, data |-> DefaultSettings, saved |-> NoSave]

\* currentSettings of handleSave
SavePayload(screen) ==
    [urgent_context |-> Str(screen.urgentContext),
     delegate_context |-> Str(screen.delegateContext),
     loop_context |-> Str(screen.loopContext)]

ApplySettingsSwapped(screen, data) ==
    [screen EXCEPT !.urgentContext = OrElse(data.delegate_context, Str("")).val,
                   !.delegateContext = OrElse(data.urgent_context, Str("")).val,
                   !.loopContext = OrElse(data.loop_context, Str("")).val]

\* setUrgentContext(data.urgent_context || '') and the two other setters
ApplySettings(screen, data) ==
    [screen EXCEPT !.urgentContext = OrElse(data.urgent_context, Str("")).val,
                   !.delegateContext = OrElse(data.delegate_context, Str("")).val,
                   !.loopContext = OrElse(data.loop_context, Str("")).val]

\* settings are saved wholesale
StoreSettings(stored, payload) == payload

\* the page mounts (again): fresh state, and loadSettings up to its await
MountSettings ==
    /\ settingsMounts < MaxLoads
    /\ settingsMounts' = settingsMounts + 1
    /\ settingsScreen' = SettingsScreenInit
    /\ loadCall' = [IdleLoad EXCEPT !.state = "sent"]
    /\ UNCHANGED <<notSettings, settingsStore, lastSaved, saveCalls, saves>>

\* GET /api/settings on the server
ServeLoad(fail) ==
    /\ loadCall.state = "sent"
    /\ loadCall' = IF fail
                   THEN [loadCall EXCEPT !.state = "answered"]
                   ELSE [loadCall EXCEPT !.state = "answered", !.ok = TRUE,
                            !.data = settingsStore, !.saved = lastSaved]
    /\ UNCHANGED <<notSettings, settingsStore, lastSaved, settingsScreen,
                   settingsMounts, saveCalls, saves>>

\* loadSettings after the response arrived
LoadSettles ==
    /\ loadCall.state = "answered"
    /\ loadCall' = [loadCall EXCEPT !.state = "done"]
    /\ settingsScreen' =
           IF loadCall.ok
           THEN [ApplySettings(settingsScreen, loadCall.data)
                    EXCEPT !.isInitiallyLoading = FALSE]
           ELSE [settingsScreen EXCEPT !.isInitiallyLoading = FALSE,
                    !.feedback = Feedback("error",
                        <<"Failed to load settings: ", HttpErrorText(500)>>)]
    /\ UNCHANGED <<notSettings, settingsStore, lastSaved, settingsMounts, saveCalls, saves>>

\* onChange of one of the three textareas, which the page shows once loaded
SetContext(field, text) ==
    /\ ~settingsScreen.isInitiallyLoading
    /\ settingsScreen[field] # text
    /\ settingsScreen' = [settingsScreen EXCEPT ![field] = text]
    /\ UNCHANGED <<notSettings, settingsStore, lastSaved, settingsMounts, loadCall,
                   saveCalls, saves>>

\* handleReset(setter)
HandleReset(field) ==
    /\ ~settingsScreen.isInitiallyLoading
    /\ settingsScreen' = [settingsScreen EXCEPT ![field] = "", !.feedback = NoFeedback]
    /\ UNCHANGED <<notSettings, settingsStore, lastSaved, settingsMounts, loadCall,
                   saveCalls, saves>>

\* handleSave up to its await; the save button is disabled while loading
HandleSave ==
    /\ ~settingsScreen.isInitiallyLoading
    /\ ~settingsScreen.isLoading
    /\ saves < MaxSaves
    /\ saves' = saves + 1
    /\ settingsScreen' = [settingsScreen EXCEPT !.isLoading = TRUE,
                                                !.feedback = NoFeedback]
    /\ saveCalls' = saveCalls \cup
           {[state |-> "sent", mount |-> settingsMounts,
             form |-> FormStrings(settingsScreen),
             payload |-> SavePayload(settingsScreen), ok |-> FALSE]}
    /\ UNCHANGED <<notSettings, settingsStore, lastSaved, settingsMounts, loadCall>>

\* POST /api/settings on the server
ServeSave(call, fail) ==
    /\ call.state = "sent"
    /\ IF fail
       THEN /\ saveCalls' = (saveCalls \ {call})
                                \cup {[call EXCEPT !.state = "answered"]}
            /\ UNCHANGED <<settingsStore, lastSaved>>
       ELSE /\ settingsStore' = StoreSettings(settingsStore, call.payload)
            /\ lastSaved' = [any |-> TRUE, form |-> call.form]
            /\ saveCalls' = (saveCalls \ {call})
                                \cup {[call EXCEPT !.state = "answered", !.ok = TRUE]}
    /\ UNCHANGED <<notSettings, settingsScreen, settingsMounts, loadCall, saves>>

\* POST /api/settings on the server, sent from another tab
SaveElsewhere(form) ==
    /\ lastSaved # [any |-> TRUE, form |-> form]
    /\ settingsStore' = StoreSettings(settingsStore,
           [urgent_context |-> Str(form[1]), delegate_context |-> Str(form[2]),
            loop_context |-> Str(form[3])])
    /\ lastSaved' = [any |-> TRUE, form |-> form]
    /\ UNCHANGED <<notSettings, settingsScreen, settingsMounts, loadCall, saveCalls,
                   saves>>

\* handleSave after the response arrived; the setters reach only the page
\* that is still mounted
SaveSettles(call) ==
    /\ call.state = "answered"
    /\ saveCalls' = saveCalls \ {call}
    /\ settingsScreen' =
           IF call.mount # settingsMounts
           THEN settingsScreen
           ELSE IF call.ok
           THEN [settingsScreen EXCEPT !.isLoading = FALSE,
                    !.feedback = Feedback("success", <<"Settings saved successfully!">>)]
           ELSE [settingsScreen EXCEPT !.isLoading = FALSE,
                    !.feedback = Feedback("error",
                        <<"Failed to save settings: ", HttpErrorText(500)>>)]
    /\ UNCHANGED <<notSettings, settingsStore, lastSaved, settingsMounts, loadCall,
                   saves>>

\* the page has mounted and loadSettings awaits its fetch
InitSettings ==
    /\ settingsStore = DefaultSettings
    /\ lastSaved = NoSave
    /\ settingsScreen = SettingsScreenInit
    /\ settingsMounts = 1
    /\ loadCall = [IdleLoad EXCEPT !.state = "sent"]
    /\ saveCalls = {}
    /\ saves = 0

NextSettings ==
    \/ MountSettings
    \/ \E fail \in BOOLEAN : ServeLoad(fail)
    \/ LoadSettles
    \/ \E field \in ContextFields, text \in ContextTexts : SetContext(field, text)
    \/ \E field \in ContextFields : HandleReset(field)
    \/ HandleSave
    \/ \E call \in saveCalls, fail \in BOOLEAN : ServeSave(call, fail)
    \/ \E call \in saveCalls : SaveSettles(call)
    \/ \E form \in OtherForms : SaveElsewhere(form)

(***************************************************************************)
(* MainLayout: the chat client over POST /api/email_rag. It shares         *)
(* chatInput, isSubmitting, chatHistory, isChatOpen and now with the       *)
(* streaming client; its messages carry references in place of the         *)
(* streaming flag.                                                         *)
(***************************************************************************)

\* lists of email references, as JSON arrays
EmptyList == [type |-> "array", val |-> "[]"]
OneReference == [type |-> "array", val |-> "[e1]"]

AnswerTexts == {Str("answer"), Str(""), Undefined}

ReferenceLists == {OneReference, EmptyList, Undefined}

\* the part of the Response handleChatSubmit reads: json is whether the body
\* parses as JSON
RagResponse(status, json, answer, references, detail) ==
    [ok |-> status \in 200..299, status |-> status, json |-> json,
     result |-> [answer_text |-> answer, references |-> references,
                 detail |-> detail]]

\* the answers of POST /api/email_rag
RagResponses ==
    {RagResponse(200, TRUE, a, r, Undefined) : a \in AnswerTexts, r \in ReferenceLists}
        \cup {RagResponse(500, TRUE, Undefined, Undefined, d) :
                 d \in {Str("boom"), Undefined}}
        \cup {RagResponse(500, FALSE, Undefined, Undefined, Undefined)}

RagAnswerNoFallback(msg, result) ==
    [msg EXCEPT !.text = <<result.answer_text.val>>,
                !.references = result.references]

\* { ...msg, text: result.answer_text || "Sorry, ...", references:
\*   result.references || [] }
RagAnswer(msg, result) ==
    [msg EXCEPT
        !.text = <<OrElse(result.answer_text,
                          Str("Sorry, I couldn't get a response.")).val>>,
        !.references = OrElse(result.references, EmptyList)]

\* errorData.detail || `HTTP error ${response.status}`, errorData being
\* { detail: "Unknown server error" } when the body does not parse
RagErrorText(response) ==
    IF response.json
    THEN OrElse(response.result.detail, Str("HTTP error 500")).val
    ELSE "Unknown server error"

\* the variant of RagError that leaves the placeholder as it is
RagErrorSilent(msg, errorMessage) == msg

\* { ...msg, text: `Error: ${error.message}` }
RagError(msg, errorMessage) == [msg EXCEPT !.text = <<"Error: ", errorMessage>>]

\* closeChat
CloseChatRag ==
    /\ isChatOpen
    /\ isChatOpen' = FALSE
    /\ isSubmitting' = FALSE
    /\ UNCHANGED <<notRag, chatInput, chatHistory, eventSourceRef, sources, now,
                   ragCalls, ragSent>>

\* handleInputFocus; the input is disabled while submitting
HandleInputFocus ==
    /\ ~isSubmitting
    /\ ~isChatOpen
    /\ isChatOpen' = TRUE
    /\ UNCHANGED <<notRag, chatInput, isSubmitting, chatHistory, eventSourceRef,
                   sources, now, ragCalls, ragSent>>

\* onChange of the chat input, which is disabled while submitting
SetChatInputRag(text) ==
    /\ ~isSubmitting
    /\ chatInput # text
    /\ ragSent < MaxSubmits
    /\ chatInput' = text
    /\ UNCHANGED <<notRag, isSubmitting, chatHistory, isChatOpen, eventSourceRef,
                   sources, now, ragCalls, ragSent>>

\* handleChatSubmit up to its await: rejected, or the user message, the
\* placeholder and the request
HandleChatSubmitRag ==
    LET messageText == Trim(chatInput)
        userMessageId == [kind |-> "user", at |-> now]
        assistantMessageId == [kind |-> "assistant", at |-> now]
    IN  IF messageText = <<>> \/ isSubmitting
        THEN UNCHANGED vars
        ELSE /\ ragSent < MaxSubmits
             /\ ragSent' = ragSent + 1
             /\ isSubmitting' = TRUE
             /\ chatInput' = <<>>
             /\ chatHistory' = chatHistory \o
                    <<[id |-> userMessageId, sender |-> "user",
                       text |-> messageText, references |-> Undefined],
                      [id |-> assistantMessageId, sender |-> "assistant",
                       text |-> <<"...">>, references |-> Undefined]>>
             /\ ragCalls' = ragCalls \cup
                    {[id |-> assistantMessageId, message |-> messageText,
                      state |-> "sent",
                      response |-> RagResponse(0, FALSE, Undefined, Undefined, Undefined)]}
             /\ now' = now + 1
             /\ UNCHANGED <<notRag, isChatOpen, eventSourceRef, sources>>

\* POST /api/email_rag on the server
ServeRag(call, response) ==
    /\ call.state = "sent"
    /\ ragCalls' = (ragCalls \ {call})
                       \cup {[call EXCEPT !.state = "answered", !.response = response]}
    /\ UNCHANGED <<notRag, clientVars, ragSent>>

\* handleChatSubmit after the response arrived
RagSettles(call) ==
    /\ call.state = "answered"
    /\ ragCalls' = ragCalls \ {call}
    /\ chatHistory' =
           IF call.response.ok
           THEN MapMessage(chatHistory, call.id,
                           LAMBDA msg : RagAnswer(msg, call.response.result))
           ELSE MapMessage(chatHistory, call.id,
                           LAMBDA msg : RagError(msg, RagErrorText(call.response)))
    /\ isSubmitting' = FALSE
    /\ UNCHANGED <<notRag, chatInput, isChatOpen, eventSourceRef, sources, now,
                   ragSent>>

\* the fetch of handleChatSubmit rejects
RagFetchFails(call) ==
    /\ call.state = "sent"
    /\ ragCalls' = ragCalls \ {call}
    /\ chatHistory' = MapMessage(chatHistory, call.id,
                                 LAMBDA msg : RagError(msg, "Failed to fetch"))
    /\ isSubmitting' = FALSE
    /\ UNCHANGED <<notRag, chatInput, isChatOpen, eventSourceRef, sources, now,
                   ragSent>>

InitRag ==
    /\ ragCalls = {}
    /\ ragSent = 0

NextRag ==
    \/ \E text \in Inputs : SetChatInputRag(text)
    \/ HandleInputFocus
    \/ HandleChatSubmitRag
    \/ CloseChatRag
    \/ \E call \in ragCalls, response \in RagResponses : ServeRag(call, response)
    \/ \E call \in ragCalls : RagSettles(call)
    \/ \E call \in ragCalls : RagFetchFails(call)

(***************************************************************************)
(* HomeScreen over GET /api/homescreen_emails.                             *)
(***************************************************************************)

\* a category of the generation response: missing, null, empty, or a list
Categories == {Undefined, Null, EmptyList, OneReference}

\* the generation responses of the text-generation service
Generations ==
    [urgent : Categories, delegate : Categories, waiting_on : Categories]

\* response-shape validation: a missing category becomes the empty list
ValidateShape(generated) ==
    [type |-> "object",
     urgent |-> OrElse(generated.urgent, EmptyList),
     delegate |-> OrElse(generated.delegate, EmptyList),
     waiting_on |-> OrElse(generated.waiting_on, EmptyList)]

\* useState<HomescreenData | null>(null)
NullData ==
    [type |-> "null", urgent |-> Undefined, delegate |-> Undefined,
     waiting_on |-> Undefined]

HomeScreenInit == [data |-> NullData, loading |-> TRUE, error |-> Null]

IdleHome ==
    [state |-> "none", ok |-> FALSE, result |-> NullData,
     generated |-> [urgent |-> Undefined, delegate |-> Undefined,
                    waiting_on |-> Undefined]]

IncompleteWhenEmpty(data) ==
    \/ ~Truthy(data)
    \/ data.urgent # OneReference
    \/ data.delegate # OneReference
    \/ data.waiting_on # OneReference

\* !data || !data.urgent || !data.delegate || !data.waiting_on
Incomplete(data) ==
    \/ ~Truthy(data)
    \/ ~Truthy(data.urgent)
    \/ ~Truthy(data.delegate)
    \/ ~Truthy(data.waiting_on)

\* what the home screen renders
HomeView(screen) ==
    IF screen.loading THEN "loading"
    ELSE IF Truthy(screen.error) THEN "error"
    ELSE IF Incomplete(screen.data) THEN "incomplete"
    ELSE "sections"

\* the page mounts (again): fresh state, and fetchData up to its await
MountHome ==
    /\ homeMounts < MaxHomeLoads
    /\ homeMounts' = homeMounts + 1
    /\ homeScreen' = HomeScreenInit
    /\ homeCall' = [IdleHome EXCEPT !.state = "sent"]
    /\ UNCHANGED notHome

\* GET /api/homescreen_emails on the server: the generation response, shaped
ServeHome(generated, fail) ==
    /\ homeCall.state = "sent"
    /\ homeCall' = IF fail
                   THEN [homeCall EXCEPT !.state = "answered"]
                   ELSE [homeCall EXCEPT !.state = "answered", !.ok = TRUE,
                            !.generated = generated,
                            !.result = ValidateShape(generated)]
    /\ UNCHANGED <<notHome, homeScreen, homeMounts>>

\* fetchData after the response arrived
HomeSettles ==
    /\ homeCall.state = "answered"
    /\ homeCall' = [homeCall EXCEPT !.state = "done"]
    /\ homeScreen' =
           IF homeCall.ok
           THEN [homeScreen EXCEPT !.data = homeCall.result, !.loading = FALSE]
           ELSE [homeScreen EXCEPT !.loading = FALSE,
                    !.error = Str("Failed to fetch dashboard data: HTTP error! status: 500")]
    /\ UNCHANGED <<notHome, homeMounts>>

\* the page has mounted and fetchData awaits its fetch
InitHome ==
    /\ homeScreen = HomeScreenInit
    /\ homeMounts = 1
    /\ homeCall = [IdleHome EXCEPT !.state = "sent"]

NextHome ==
    \/ MountHome
    \/ \E generated \in Generations, fail \in BOOLEAN : ServeHome(generated, fail)
    \/ HomeSettles

(***************************************************************************)
(* The start of the backend process: the imports of config/data-source and *)
(* config/weaviate-client, then initializeApp.                             *)
(***************************************************************************)
PgNames == {"PG_HOST", "PG_PORT", "PG_USER", "PG_PASSWORD", "PG_DATABASE"}

EnvNames == PgNames \cup {"WEAVIATE_HOST"}

\* a variable is missing, set to the empty string, or set
EnvValues == {Undefined, Str(""), Str("set")}

Envs == [EnvNames -> EnvValues]

FullEnv == [name \in EnvNames |-> Str("set")]

\* process.exit(code): the process is gone, nothing of it runs afterwards
ProcessExit(code) ==
    /\ bootPc' = "exited"
    /\ exitCode' = code
    /\ UNCHANGED <<env, listens>>

\* !process.env.PG_HOST || !process.env.PG_PORT || ... || !process.env.PG_DATABASE
MissingPg(e) == \E name \in PgNames : ~Truthy(e[name])

\* the import of ./config/data-source: the module checks its variables
LoadDataSource ==
    /\ bootPc = "importDataSource"
    /\ IF MissingPg(env)
       THEN /\ ProcessExit(1)
            /\ UNCHANGED bootLog
       ELSE /\ bootPc' = "importWeaviateClient"
            /\ UNCHANGED <<env, bootLog, listens, exitCode>>
    /\ UNCHANGED notBoot

\* the import of ./config/weaviate-client: if (!weaviateHost) process.exit(1)
LoadWeaviateClient ==
    /\ bootPc = "importWeaviateClient"
    /\ LET weaviateHost == env["WEAVIATE_HOST"]
       IN  IF ~Truthy(weaviateHost)
           THEN /\ ProcessExit(1)
                /\ UNCHANGED bootLog
           ELSE /\ bootPc' = "initializeApp"
                /\ UNCHANGED <<env, bootLog, listens, exitCode>>
    /\ UNCHANGED notBoot

\* initializeApp() up to its first await: AppDataSource.initialize()
InitializeApp ==
    /\ bootPc = "initializeApp"
    /\ bootPc' = "awaitInitialize"
    /\ bootLog' = Append(bootLog, "initialize")
    /\ UNCHANGED <<notBoot, env, listens, exitCode>>

\* the catch of initializeApp: console.error, process.exit(1)
CatchInitialization(step) ==
    /\ ProcessExit(1)
    /\ bootLog' = Append(bootLog, step)

\* the variant of WeaviateSettles without the try/catch: the setup goes on
\* after a failed connection check
WeaviateSettlesUncaught(ok) ==
    /\ bootPc = "awaitMetaGetter"
    /\ bootLog' = bootLog \o <<IF ok THEN "meta" ELSE "metaGetter failed", "listen">>
    /\ listens' = TRUE
    /\ bootPc' = "serving"
    /\ UNCHANGED <<notBoot, env, exitCode>>

\* AppDataSource.initialize() settles: on success the connection check of
\* Weaviate is called, a rejection goes to the catch
DataSourceSettles(ok) ==
    /\ bootPc = "awaitInitialize"
    /\ IF ok
       THEN /\ bootPc' = "awaitMetaGetter"
            /\ bootLog' = bootLog \o <<"initialized", "metaGetter">>
            /\ UNCHANGED <<env, listens, exitCode>>
       ELSE CatchInitialization("initialize failed")
    /\ UNCHANGED notBoot

\* weaviateClient.misc.metaGetter().do() settles: on success the express app
\* is set up and app.listen is called, a rejection goes to the catch
WeaviateSettles(ok) ==
    /\ bootPc = "awaitMetaGetter"
    /\ IF ok
       THEN /\ bootPc' = "serving"
            /\ bootLog' = bootLog \o <<"meta", "listen">>
            /\ listens' = TRUE
            /\ UNCHANGED <<env, exitCode>>
       ELSE CatchInitialization("metaGetter failed")
    /\ UNCHANGED notBoot

\* node starts the process with some environment
InitBoot ==
    /\ env \in Envs
    /\ bootPc = "importDataSource"
    /\ bootLog = <<>>
    /\ listens = FALSE
    /\ exitCode = -1

\* the log of a start that reached app.listen
StartedLog == <<"initialize", "initialized", "metaGetter", "meta", "listen">>

\* the process has started and serves requests
Serving ==
    /\ env = FullEnv
    /\ bootPc = "serving"
    /\ bootLog = StartedLog
    /\ listens = TRUE
    /\ exitCode = -1

NextBoot ==
    \/ LoadDataSource
    \/ LoadWeaviateClient
    \/ InitializeApp
    \/ \E ok \in BOOLEAN : DataSourceSettles(ok)
    \/ \E ok \in BOOLEAN : WeaviateSettles(ok)

InitPages ==
    /\ InitMail
    /\ InitSettings
    /\ InitRag
    /\ InitHome

Init ==
    /\ apiKey \in ApiKeys
    /\ InitPages
    /\ InitChat
    /\ InitUsers
    /\ InitAI
    /\ InitClient
    /\ Serving

\* the client runs in the browser: the server's environment plays no part
InitBrowser ==
    /\ apiKey = Undefined
    /\ InitPages
    /\ InitChat
    /\ InitUsers
    /\ InitAI
    /\ InitClient
    /\ Serving

SpecClient == InitBrowser /\ [][NextClient]_vars

SpecAI == Init /\ [][NextAI]_vars

SpecChat == Init /\ [][NextChat]_vars

SpecUsers == Init /\ [][NextUsers]_vars

SpecIngest == InitBrowser /\ [][NextIngest]_vars

SpecEmails == InitBrowser /\ [][NextEmails]_vars

SpecSettings == InitBrowser /\ [][NextSettings]_vars

SpecRag == InitBrowser /\ [][NextRag]_vars

\* the ids handleChatSubmit can give to an assistant placeholder
RagCallIds == {[kind |-> "assistant", at |-> t] : t \in 1..MaxSubmits}

\* the fetch of the request with this id makes its next step: the server
\* answers, the answer is handled, or the fetch rejects
FetchSettles(id) ==
    \E call \in ragCalls :
        /\ call.id = id
        /\ \/ \E response \in RagResponses : ServeRag(call, response)
           \/ RagSettles(call)
           \/ RagFetchFails(call)

\* every fetch settles: the browser resolves or rejects each fetch, and the
\* continuation of an await that has settled runs
SpecRagFair == SpecRag /\ \A id \in RagCallIds : WF_vars(FetchSettles(id))

SpecHome == InitBrowser /\ [][NextHome]_vars

\* the start of the process: no request is served before it
InitStart ==
    /\ apiKey \in ApiKeys
    /\ InitPages
    /\ InitChat
    /\ InitUsers
    /\ InitAI
    /\ InitClient
    /\ InitBoot

SpecBoot == InitStart /\ [][NextBoot]_vars

(***************************************************************************)
(* Claims about GET /api/chat.                                             *)
(***************************************************************************)
RECURSIVE ChunkEvents(_)
\* the chunk events of the upstream chunks with non-empty content, in order
ChunkEvents(cs) ==
    IF cs = <<>> THEN <<>>
    ELSE IF Head(cs).type = "string" /\ Head(cs).val # ""
         THEN <<SseEvent("chunk", Head(cs).val)>> \o ChunkEvents(Tail(cs))
         ELSE ChunkEvents(Tail(cs))

EndMarker == SseEvent("end", "true")

\* C1: when the upstream stream completes without error and the client stays
\* connected, the response body is one chunk event per upstream chunk with
\* non-empty content, in upstream order, then exactly one end event as the
\* last event, and the response is ended (once, with nothing written after).
C1_StreamForwarded ==
    (hpc = "done" /\ upstreamEnd = "done" /\ clientConnected) =>
        /\ res.body = ChunkEvents(upstream) \o <<EndMarker>>
        /\ res.statusCode = 200
        /\ res.contentType = "text/event-stream"
        /\ res.writableEnded
        /\ res.endCalls = 1
        /\ res.lateWrites = 0

C1_Witness ==
    /\ hpc = "done" /\ upstreamEnd = "done" /\ clientConnected
    /\ Len(upstream) >= 3
    /\ upstream[1] = Str("a") /\ upstream[2] = Str("") /\ upstream[3] = Str("b")

\* C2: if the client disconnects at any moment before the handler has
\* finished the response, the upstream generation is aborted: once the
\* handler of a request whose stream was established is done, a disconnect
\* that happened while it was running has called stream.controller.abort().
C2_DisconnectAborts ==
    (hpc = "done" /\ stream = "stream" /\ disconnectAt \in {"awaitCreate", "loop"}) =>
        abortCalls >= 1

\* C3: a request whose message parameter is missing or empty is answered 400
\* with a JSON error body, and the text-generation service is never called.
C3_MissingMessage400 ==
    (hpc # "idle" /\ message \in {Undefined, Str("")}) =>
        /\ hpc = "done"
        /\ res.statusCode = 400
        /\ res.contentType = "application/json"
        /\ res.body = <<JsonBody("error", "Invalid or missing message query parameter")>>
        /\ res.writableEnded
        /\ createCalls = 0
        /\ stream = "none"

C3_Witness ==
    hpc = "done" /\ message = Str("") /\ Truthy(apiKey) /\ res.statusCode = 400

\* C4: when getChatCompletionStream returns null (no API key, or the create
\* call fails) the handler answers 500 with a single generic error event,
\* ends the response, and writes no chunk event and no end marker.
C4_NoStream500 ==
    (hpc = "done" /\ stream = "null") =>
        /\ res.statusCode = 500
        /\ res.body = <<SseEvent("error", "Failed to establish connection with AI service.")>>
        /\ res.writableEnded
        /\ res.endCalls = 1
        /\ res.lateWrites = 0
        /\ \A i \in 1..Len(res.body) : res.body[i].key \notin {"chunk", "end"}

C4_Witness ==
    hpc = "done" /\ stream = "null" /\ createCalls = 1 /\ res.statusCode = 500

\* C11: getChatCompletionStream resolves to a stream object or to null and
\* never rejects; without a configured API key it returns null without
\* calling the text-generation service, and when the create call throws it
\* returns null.
C11_StreamOrNull ==
    /\ stream \in {"none", "pending", "null", "stream"}
    /\ createOutcome = "none" <=> createCalls = 0
    /\ ~Truthy(apiKey) =>
          /\ createCalls = 0
          /\ (hpc = "done" /\ ~InvalidMessage(message)) => stream = "null"
    /\ createOutcome = "threw" => stream = "null"
    /\ createOutcome = "resolved" => stream = "stream"

C11_Witness ==
    createOutcome = "threw" /\ stream = "null" /\ hpc = "done"

\* C19: once the response has been ended (by the normal end of the stream,
\* by the error path, or by the client-disconnect handler) no further write
\* or end is performed on it.
C19_NothingAfterEnd ==
    res.lateWrites = 0 /\ res.endCalls <= 1

\* the events of a body that are chunk events
IsChunkEvents(body) ==
    \A i \in 1..Len(body) : body[i].frame = "data" /\ body[i].key = "chunk"

\* the error event of the error the iteration threw
ErrorEvent ==
    SseEvent("error", <<"Server error: ", OrElse(thrown, Str("Unknown error")).val>>)

HasEvent(body, key) == \E i \in 1..Len(body) : body[i].key = key

\* C20 as claimed: whenever the upstream stream throws after the headers
\* were sent, the chunks already forwarded are followed by one error event
\* carrying the error message, the response is ended, and no end marker is
\* written; a response never contains both an end marker and an error event.
C20_ErrorEventAlways ==
    /\ (hpc = "done" /\ upstreamEnd = "threw") =>
          /\ Len(res.body) >= 1
          /\ res.body[Len(res.body)] = ErrorEvent
          /\ IsChunkEvents(SubSeq(res.body, 1, Len(res.body) - 1))
          /\ res.writableEnded
          /\ ~HasEvent(res.body, "end")
    /\ ~(HasEvent(res.body, "end") /\ HasEvent(res.body, "error"))

\* C20 (amended): when the upstream stream throws after the headers were
\* sent and the client-disconnect handler has not ended the response, the
\* chunk events of the upstream chunks are followed by one error event
\* carrying the error message ('Unknown error' when it is empty) and the
\* response is ended; when the handler had ended it, nothing is added to the
\* chunks forwarded before. No end marker is written in either case, and a
\* response never contains both an end marker and an error event.
C20_ErrorEventUnlessEnded ==
    /\ (hpc = "done" /\ upstreamEnd = "threw" /\ disconnectAt # "loop") =>
          /\ Len(res.body) = Len(ChunkEvents(upstream)) + 1
          /\ SubSeq(res.body, 1, Len(res.body) - 1) = ChunkEvents(upstream)
          /\ res.body[Len(res.body)] = ErrorEvent
          /\ res.lateWrites = 0
    /\ (hpc = "done" /\ upstreamEnd = "threw" /\ disconnectAt = "loop") =>
          /\ IsChunkEvents(res.body)
          /\ Len(res.body) <= Len(ChunkEvents(upstream))
          /\ res.body = SubSeq(ChunkEvents(upstream), 1, Len(res.body))
    /\ (hpc = "done" /\ upstreamEnd = "threw") =>
          res.writableEnded /\ ~HasEvent(res.body, "end")
    /\ ~(HasEvent(res.body, "end") /\ HasEvent(res.body, "error"))

\* two chunks were forwarded, then the stream threw with the client connected
C20_Witness ==
    /\ hpc = "done" /\ upstreamEnd = "threw" /\ disconnectAt = "never"
    /\ Len(res.body) = 3
    /\ res.body[3] = SseEvent("error", <<"Server error: ", "boom">>)

(***************************************************************************)
(* Claims about POST /api/users.                                           *)
(***************************************************************************)
\* C5: under any interleaving of createUser requests, no two stored user
\* records have the same email.
C5_EmailUnique ==
    \A i, j \in 1..Len(users) : i # j => users[i].email # users[j].email

\* two requests with the same email both passed the lookup and reached the insert
C5_Witness ==
    \E r1, r2 \in Requests :
        /\ r1 # r2
        /\ ureq[r1].email = ureq[r2].email
        /\ ureq[r1].pc = "done" /\ ureq[r1].saves = 1
        /\ ureq[r2].pc = "done" /\ ureq[r2].saves = 1

\* C6: createUser with an email that already belongs to a stored user
\* responds 409 'User with this email already exists' and performs no write
\* on the user store.
C6_Duplicate409 ==
    \A r \in Requests :
        (ureq[r].pc = "done" /\ ureq[r].storedAtStart) =>
            /\ ureq[r].status = 409
            /\ ureq[r].body = "User with this email already exists"
            /\ ureq[r].saves = 0

C6_Witness ==
    \E r \in Requests :
        ureq[r].pc = "done" /\ ureq[r].storedAtStart /\ ureq[r].status = 409

\* C7: createUser with an absent or falsy email responds 400 'Email is
\* required', and with a truthy non-string email 400 'Invalid email format';
\* in both cases no lookup and no write on the user store is performed.
C7_InvalidEmail400 ==
    \A r \in Requests :
        /\ (ureq[r].pc # "idle" /\ ~Truthy(ureq[r].email)) =>
              /\ ureq[r].pc = "done" /\ ureq[r].status = 400
              /\ ureq[r].body = "Email is required"
              /\ ureq[r].lookups = 0 /\ ureq[r].saves = 0
        /\ (ureq[r].pc # "idle" /\ Truthy(ureq[r].email)
                /\ ureq[r].email.type # "string") =>
              /\ ureq[r].pc = "done" /\ ureq[r].status = 400
              /\ ureq[r].body = "Invalid email format"
              /\ ureq[r].lookups = 0 /\ ureq[r].saves = 0

C7_Witness ==
    \E r1, r2 \in Requests :
        /\ ureq[r1].pc = "done" /\ ureq[r1].email = Str("") /\ ureq[r1].status = 400
        /\ ureq[r2].pc = "done" /\ ureq[r2].email = Num("7") /\ ureq[r2].status = 400

(***************************************************************************)
(* Claims about AIService.getChatCompletion.                               *)
(***************************************************************************)
\* C10: getChatCompletion always resolves to a string and never rejects, for
\* every outcome of the upstream call: missing API key (no upstream call is
\* made), API error, any other thrown error, and a completion whose content
\* is null or absent.
C10_AlwaysString ==
    /\ aiPc = "settled" => Len(aiResults) = aiCalls
    /\ \A i \in 1..Len(aiResults) :
          aiResults[i].outcome = "resolved" /\ aiResults[i].value.type = "string"
    /\ ~Truthy(apiKey) => aiCreateCalls = 0

\* one call settled on a completion without usable content, one on a thrown
\* error that is no API error
C10_Witness ==
    /\ aiPc = "settled" /\ aiCreateCalls >= 2
    /\ aiResults[1].value = Str("AI did not return a valid response.")
    /\ aiResults[2].value = Str("An error occurred while communicating with the AI.")

(***************************************************************************)
(* Claims about the streaming chat client.                                 *)
(***************************************************************************)
\* the text shows a failure as a message string
HasErrorText(text) ==
    \E j \in 1..Len(text) :
        text[j] \in {"Error: ", ConnectionFailedNote, ParseErrorNote}

\* C8: when the connection fails during streaming (EventSource onerror), the
\* assistant message of that request keeps all text received so far with the
\* error note appended after it, its streaming flag is cleared, and the
\* connection is closed.
C8_ConnectionErrorKeepsText ==
    [][\A i \in 1..Len(sources) :
          (sources[i].fail = "none" /\ sources'[i].fail = "connection") =>
              /\ sources'[i].readyState = "closed"
              /\ eventSourceRef' = 0
              /\ \E k \in 1..Len(chatHistory) :
                    chatHistory[k].id = sources[i].assistantMessageId
              /\ \A k \in 1..Len(chatHistory) :
                    chatHistory[k].id = sources[i].assistantMessageId =>
                        /\ chatHistory'[k].text =
                              chatHistory[k].text \o <<ConnectionFailedNote>>
                        /\ ~chatHistory'[k].isStreaming]_vars

\* two chunks were received, then the connection failed
C8_Witness ==
    \E i \in 1..Len(sources), k \in 1..Len(chatHistory) :
        /\ sources[i].fail = "connection"
        /\ chatHistory[k].id = sources[i].assistantMessageId
        /\ chatHistory[k].text = <<"a", "b", ConnectionFailedNote>>

\* C9: after a failure of a chat request (connection error, server-sent
\* error event, or unparsable event) the client issues no new request until
\* the user submits again: the EventSource of the request is closed, it sent
\* one request at most, and the failure is shown as a message string in the
\* assistant message of the request.
C9_NoRetryAfterFailure ==
    \A i \in 1..Len(sources) :
        /\ sources[i].requests <= 1
        /\ sources[i].fail # "none" =>
              /\ sources[i].readyState = "closed"
              /\ ~sources[i].inflight
              /\ \E k \in 1..Len(chatHistory) :
                    /\ chatHistory[k].id = sources[i].assistantMessageId
                    /\ chatHistory[k].sender = "assistant"
                    /\ HasErrorText(chatHistory[k].text)

\* a request failed on its connection, the browser had scheduled a
\* reconnection, and the next request is the one of the user's next submit
C9_Witness ==
    /\ Len(sources) = 2
    /\ sources[1].fail = "connection" /\ sources[1].requests = 1
    /\ sources[2].fail = "event" /\ sources[2].requests = 1

\* C18: for any interleaving of concurrent createUser requests carrying the
\* same valid, not yet stored email, exactly one responds 201 and every
\* other one responds 409; none responds 500.
C18_RaceGives409 ==
    \A r \in Requests :
        (ureq[r].pc = "done" /\ ~EmailMissing(ureq[r].email)
            /\ ~EmailNotString(ureq[r].email)) =>
            /\ ureq[r].status \in {201, 409}
            /\ ureq[r].status = 409 =>
                  \E q \in Requests :
                      q # r /\ ureq[q].email = ureq[r].email /\ ureq[q].status = 201

(***************************************************************************)
(* Claims about the ingestion form, the email list and the email store.    *)
(***************************************************************************)

\* C12: submitting the ingestion form with empty or whitespace-only text
\* yields a non-empty user-visible error message, sends no ingestion
\* request, and leaves the form text and the loading flag unchanged.
C12_BlankTextRejected ==
    [][(/\ ingestSubmits' = ingestSubmits + 1
        /\ \A i \in 1..Len(ingestForm.bulkEmailsText) :
               ingestForm.bulkEmailsText[i] = " ")
       => /\ ingestForm'.feedback.type = "error"
          /\ ingestForm'.feedback.message # <<>>
          /\ \A j \in 1..Len(ingestForm'.feedback.message) :
                 ingestForm'.feedback.message[j] # ""
          /\ ingestCall' = ingestCall
          /\ mailStore' = mailStore
          /\ ingestForm'.bulkEmailsText = ingestForm.bulkEmailsText
          /\ ingestForm'.isLoading = ingestForm.isLoading]_vars

\* whitespace-only text was submitted and rejected
C12_Witness ==
    /\ ingestSubmits >= 1
    /\ ingestForm.bulkEmailsText = <<" ">>
    /\ ingestForm.feedback = Feedback("error", <<"Email text cannot be empty.">>)
    /\ ingestCall.state = "none"

\* C14: after a delete of email id X has succeeded (answered 2xx), every
\* later fetch of the email list contains no item with id X, provided no
\* email with id X is ingested again.
C14_DeletedNotListed ==
    /\ listCall.state \in {"answered", "done"} =>
           \A i \in 1..Len(listCall.emails) : listCall.emails[i].id \notin listCall.gone
    /\ (listCall.state = "done" /\ listCall.ok) =>
           \A i \in 1..Len(listScreen.emails) :
               listScreen.emails[i].id \notin listCall.gone

\* a list fetched after a successful delete shows the emails that are left
C14_Witness ==
    /\ listCall.state = "done" /\ listCall.ok
    /\ listCall.gone # {}
    /\ listScreen.emails # <<>>
    /\ \E i \in 1..Len(deleteCalls) :
           deleteCalls[i].state = "done" /\ deleteCalls[i].response.ok

\* C17: ingesting a well-formed text containing N recognizable email
\* markers stores exactly N email records, and the count reported to the
\* ingestion form equals N.
C17_CountPerMarker ==
    [][/\ (/\ ingestCall.state = "sent" /\ ingestCall'.state = "answered"
           /\ ingestCall'.response.ok)
          => /\ Len(mailStore') = Len(mailStore) + Markers(ingestCall.text)
             /\ SubSeq(mailStore', 1, Len(mailStore)) = mailStore
             /\ ingestCall'.response.result.count = Num(NumStr(Markers(ingestCall.text)))
       /\ (/\ ingestCall.state = "answered" /\ ingestCall'.state = "done"
           /\ ingestCall.response.ok)
          => /\ ingestForm'.feedback.type = "success"
             /\ ingestForm'.feedback.message[3] = NumStr(Markers(ingestCall.text))
       /\ (/\ ingestCall.state = "sent" /\ ingestCall'.state = "answered"
           /\ WellFormed(ingestCall.text) /\ ~ingestCall'.response.ok)
          => mailStore' = mailStore]_vars

\* a text with two markers was ingested: two records, and the form says 2
C17_Witness ==
    /\ ingestCall.state = "done" /\ ingestCall.response.ok
    /\ Markers(ingestCall.text) = 2
    /\ Len(mailStore) >= 2
    /\ ingestForm.feedback.type = "success"
    /\ ingestForm.feedback.message[3] = "2"

(***************************************************************************)
(* Claims about the settings screen.                                       *)
(***************************************************************************)

\* C13: settings round-trip: after a successful save of the three context
\* strings with no intervening save, a subsequent load puts exactly the same
\* three strings into the settings form.
C13_SettingsRoundTrip ==
    [][(/\ loadCall.state = "answered" /\ loadCall'.state = "done"
        /\ loadCall.ok /\ loadCall.saved.any)
       => FormStrings(settingsScreen') = loadCall.saved.form]_vars

\* strings that tell the three fields apart were saved and loaded again
C13_Witness ==
    /\ loadCall.state = "done" /\ loadCall.ok /\ loadCall.saved.any
    /\ loadCall.saved.form = <<"a", "", "a">>
    /\ FormStrings(settingsScreen) = <<"a", "", "a">>
    /\ settingsMounts >= 2

(***************************************************************************)
(* Claims about the chat client over POST /api/email_rag.                  *)
(***************************************************************************)

\* C15: for every chat query answered with a 2xx response, the assistant
\* message ends well-formed: a non-empty answer text (the fallback text when
\* answer_text is missing or empty) and a reference list, which is the empty
\* list when no emails matched (references missing or empty).
C15_AnswerWellFormed ==
    [][\A call \in ragCalls :
          (call.state = "answered" /\ call.response.ok /\ call \notin ragCalls')
          => /\ \E k \in 1..Len(chatHistory') : chatHistory'[k].id = call.id
             /\ \A k \in 1..Len(chatHistory') :
                  chatHistory'[k].id = call.id
                  => LET msg == chatHistory'[k]
                         result == call.response.result
                     IN  /\ Len(msg.text) = 1
                         /\ msg.text[1] \notin {"", "..."}
                         /\ msg.text[1] =
                              IF result.answer_text \in {Undefined, Null, Str("")}
                              THEN "Sorry, I couldn't get a response."
                              ELSE result.answer_text.val
                         /\ msg.references.type = "array"
                         /\ msg.references =
                              IF result.references \in {Undefined, Null, EmptyList}
                              THEN EmptyList
                              ELSE result.references]_vars

\* a query without matching emails and without an answer text was answered
C15_Witness ==
    /\ ragCalls = {}
    /\ \E k \in 1..Len(chatHistory) :
           /\ chatHistory[k].sender = "assistant"
           /\ chatHistory[k].text = <<"Sorry, I couldn't get a response.">>
           /\ chatHistory[k].references = EmptyList

(***************************************************************************)
(* Claims about the home screen.                                           *)
(***************************************************************************)

\* C16: the homescreen result always carries all three lists (urgent,
\* delegate, waiting_on): a category missing from the generation response is
\* delivered as an empty list, so the home screen renders its three sections
\* rather than the 'data is incomplete' message.
C16_ThreeListsAlways ==
    /\ (homeCall.state \in {"answered", "done"} /\ homeCall.ok) =>
           /\ \A category \in {"urgent", "delegate", "waiting_on"} :
                  /\ homeCall.result[category].type = "array"
                  /\ homeCall.generated[category] \in {Undefined, Null}
                         => homeCall.result[category] = EmptyList
                  /\ homeCall.generated[category] \notin {Undefined, Null}
                         => homeCall.result[category] = homeCall.generated[category]
    /\ (homeCall.state = "done" /\ homeCall.ok) =>
           /\ homeScreen.data = homeCall.result
           /\ HomeView(homeScreen) = "sections"

\* a generation response without the urgent category was shown as sections
C16_Witness ==
    /\ homeCall.state = "done" /\ homeCall.ok
    /\ homeCall.generated.urgent = Undefined
    /\ homeCall.generated.delegate = OneReference
    /\ homeScreen.data.urgent = EmptyList
    /\ HomeView(homeScreen) = "sections"


(***************************************************************************)
(* Claims about the start of the backend process.                          *)
(***************************************************************************)
Logged(step) == \E i \in 1..Len(bootLog) : bootLog[i] = step

\* C21: the backend starts listening only after the relational data source
\* has been initialized and the vector-store connection check has succeeded,
\* in that order; if either step fails, or a required database or
\* vector-store environment variable is missing, the process exits with
\* code 1 and never listens.
C21_ListenAfterChecks ==
    /\ listens =>
           /\ bootLog = StartedLog
           /\ \A name \in EnvNames : env[name] \notin {Undefined, Str("")}
           /\ exitCode = -1
    /\ (Logged("initialize failed") \/ Logged("metaGetter failed")) =>
           bootPc = "exited" /\ exitCode = 1 /\ ~listens
    /\ (\E name \in EnvNames : env[name] \in {Undefined, Str("")}) =>
           /\ ~listens
           /\ bootPc \notin {"importDataSource", "importWeaviateClient"} =>
                  bootPc = "exited" /\ exitCode = 1
    /\ bootPc = "exited" => exitCode = 1 /\ ~listens

\* a start with a complete environment reached app.listen
C21_Witness ==
    /\ listens
    /\ bootLog = StartedLog
    /\ bootPc = "serving"


(***************************************************************************)
(* Claims about the streaming chat client.                                 *)
(***************************************************************************)
RECURSIVE Concat(_)
\* the concatenation of strings: the empty string adds nothing
Concat(strs) ==
    IF strs = <<>> THEN <<>>
    ELSE IF Head(strs) = "" THEN Concat(Tail(strs))
         ELSE <<Head(strs)>> \o Concat(Tail(strs))

\* the assistant message of source i in a history
AssistantMessage(history, ss, i) ==
    CHOOSE msg \in {history[k] : k \in 1..Len(history)} :
        msg.id = ss[i].assistantMessageId

\* C22: while a stream is open the assistant message's text is the
\* concatenation, in arrival order, of the chunks received for that request;
\* when the end event arrives the message's streaming flag becomes false, the
\* connection is closed, the reference to it is cleared and isSubmitting is
\* reset to false.
C22_ChunksConcatenated ==
    [][/\ \A i \in 1..Len(sources') :
              sources'[i].readyState = "open" =>
                  /\ AssistantMessage(chatHistory', sources', i).text
                         = Concat(sources'[i].received)
                  /\ AssistantMessage(chatHistory', sources', i).isStreaming
       /\ \A i \in 1..Len(sources) :
              (~sources[i].ended /\ sources'[i].ended) =>
                  /\ ~AssistantMessage(chatHistory', sources', i).isStreaming
                  /\ sources'[i].readyState = "closed"
                  /\ eventSourceRef' = 0
                  /\ ~isSubmitting']_vars

\* a stream delivered the chunks a and b, then its end event
C22_Witness ==
    \E i \in 1..Len(sources) :
        /\ sources[i].ended
        /\ sources[i].received = <<"a", "b">>
        /\ AssistantMessage(chatHistory, sources, i).text = <<"a", "b">>
        /\ ~AssistantMessage(chatHistory, sources, i).isStreaming
        /\ sources[i].fail = "none"
        /\ sources[i].readyState = "closed"
        /\ eventSourceRef = 0
        /\ ~isSubmitting


\* C23: whenever no SSE connection is open, no message of the chat history
\* has its streaming flag set, also after the user closed the chat overlay in
\* the middle of a stream.
C23_NoStreamingWithoutConnection ==
    (\A i \in 1..Len(sources) : sources[i].readyState = "closed") =>
        \A k \in 1..Len(chatHistory) : ~chatHistory[k].isStreaming


\* a is a prefix of b
IsPrefix(a, b) == Len(a) <= Len(b) /\ SubSeq(b, 1, Len(a)) = a

\* C27: an assistant message's text only grows while its request is being
\* handled: every later value of the text has every earlier value as a
\* prefix, whatever chunk, end, server error, parse-error and
\* connection-error events arrive.
C27_TextOnlyGrows ==
    [][\A k \in 1..Len(chatHistory) :
           chatHistory[k].sender = "assistant" =>
               IsPrefix(chatHistory[k].text, chatHistory'[k].text)]_vars


(***************************************************************************)
(* Claims about the chat client over POST /api/email_rag.                  *)
(***************************************************************************)

\* C24: at most one chat request is in flight at any time: from the moment a
\* submit is accepted until its response or failure has been handled,
\* isSubmitting is true and no second request is sent, under any
\* interleaving of submit, focus and close-overlay actions.
C24_OneRequestInFlight ==
    /\ Cardinality(ragCalls) <= 1
    /\ ragCalls # {} => isSubmitting


\* the request with this id is in flight
InFlight(id) == \E call \in ragCalls : call.id = id

\* the placeholder of the request shows an answer or an 'Error: ...' text
Replaced(id) ==
    \E k \in 1..Len(chatHistory) :
        /\ chatHistory[k].id = id
        /\ chatHistory[k].text # <<"...">>
        /\ \/ Head(chatHistory[k].text) = "Error: "
           \/ chatHistory[k].references.type = "array"

\* C25: after every accepted submit, isSubmitting eventually returns to false
\* and the '...' placeholder of that request is eventually replaced by an
\* answer or by an 'Error: ...' text, whether the request succeeds, returns a
\* non-2xx status or fails on the network, provided the fetch settles. Both
\* happen in the step that handles the response or the failure.
C25_SubmitEventuallyAnswered ==
    \A id \in RagCallIds :
        InFlight(id) ~> (~InFlight(id) /\ Replaced(id) /\ ~isSubmitting)

\* a request failed on the network and its placeholder shows the error
C25_Witness ==
    /\ ragCalls = {}
    /\ ~isSubmitting
    /\ \E k \in 1..Len(chatHistory) :
           /\ chatHistory[k].sender = "assistant"
           /\ chatHistory[k].text = <<"Error: ", "Failed to fetch">>


\* t is str without its leading and trailing whitespace
IsTrimOf(t, str) ==
    /\ t = <<>> \/ (Head(t) # " " /\ t[Len(t)] # " ")
    /\ \E a \in 0..Len(str) :
           /\ a + Len(t) <= Len(str)
           /\ SubSeq(str, a + 1, a + Len(t)) = t
           /\ \A j \in (1..a) \cup ((a + Len(t) + 1)..Len(str)) : str[j] = " "

\* C26: the chat history is append-only. An accepted submit appends exactly
\* two messages, the user message with the trimmed input and directly after
\* it the placeholder of the request it sends; where a submit is rejected
\* (empty or whitespace-only input, or isSubmitting true) nothing is appended
\* and nothing is sent; no message is removed or reordered, no user message
\* changes, and a response or failure changes only the assistant message of
\* its own request.
C26_HistoryAppendOnly ==
    [][LET n == Len(chatHistory)
           sent == {call.id : call \in ragCalls' \ ragCalls}
                       \ {call.id : call \in ragCalls}
       IN  /\ Len(chatHistory') >= n
           /\ \A k \in 1..n :
                  /\ chatHistory'[k].id = chatHistory[k].id
                  /\ chatHistory'[k].sender = chatHistory[k].sender
                  /\ chatHistory[k].sender = "user" => chatHistory'[k] = chatHistory[k]
                  /\ chatHistory'[k] # chatHistory[k] =>
                         /\ \E call \in ragCalls : call.id = chatHistory[k].id
                         /\ ~\E call \in ragCalls' : call.id = chatHistory[k].id
                         /\ Len(chatHistory') = n
                         /\ \A j \in 1..n : j # k => chatHistory'[j] = chatHistory[j]
           /\ ((\A j \in 1..Len(chatInput) : chatInput[j] = " ") \/ isSubmitting) =>
                  Len(chatHistory') = n /\ sent = {}
           /\ (Len(chatHistory') > n \/ sent # {}) =>
                  /\ Len(chatHistory') = n + 2
                  /\ SubSeq(chatHistory', 1, n) = chatHistory
                  /\ chatHistory'[n + 1].sender = "user"
                  /\ chatHistory'[n + 1].text # <<>>
                  /\ IsTrimOf(chatHistory'[n + 1].text, chatInput)
                  /\ chatHistory'[n + 2].sender = "assistant"
                  /\ chatHistory'[n + 2].text = <<"...">>
                  /\ sent = {chatHistory'[n + 2].id}
                  /\ \A k \in 1..n : chatHistory[k].id \notin
                         {chatHistory'[n + 1].id, chatHistory'[n + 2].id}
                  /\ \A call \in ragCalls' \ ragCalls :
                         call.message = chatHistory'[n + 1].text]_vars

\* two requests were in flight together, the second has been answered and
\* the placeholder of the first is as it was
C26_Witness ==
    /\ Len(chatHistory) = 4
    /\ chatHistory[1].text = <<"q">>
    /\ chatHistory[2].text = <<"...">>
    /\ \E call \in ragCalls : call.id = chatHistory[2].id
    /\ chatHistory[3].text = <<"q">>
    /\ chatHistory[4].text = <<"answer">>
    /\ chatHistory[4].references = OneReference

====
